---- MODULE Spec2Model ----
(***************************************************************************)
(* Capsule sandbox service: the DockerProvider registry (sandboxes map     *)
(* under mu), its reaper, the container runtime it drives, the bounded     *)
(* capturing sink (limitedWriter) and the exec pipeline.                   *)
(*                                                                         *)
(* The specifications share the variables:                                 *)
(*   Spec        registry lifecycle: Create, Delete, lookups, gcLoop       *)
(*   SpecCreate  one handler alone, all templates, cancellable context     *)
(*   SpecLW      limitedWriter.Write applied to arbitrary write sequences  *)
(*   SpecExec    one sandbox.v1.exec request through DockerProvider.Exec   *)
(*   SpecRPC     one HTTP request through Server.ServeHTTP up to its reply *)
(*   SpecTerm    one terminal connection through TerminalHandler.ServeHTTP *)
(*   SpecLock    every method of DockerProvider, lock operation by lock    *)
(*               operation, on concurrent goroutines                       *)
(*   SpecFile    one WriteFile followed by one ReadFile of the same path   *)
(***************************************************************************)
EXTENDS Integers, Sequences, FiniteSets, TLC

(* ---- bounds of the model ---- *)
NumProcs == 2        \* request handlers in flight at once
NumIds == 2          \* distinct values of uuid.New().String()[:8] considered
MaxCreates == 2      \* ContainerCreate calls the runtime accepts in a run
MaxTime == 2         \* clock instants 0..MaxTime
MaxTTL == 1          \* ttl values 1..MaxTTL
MaxCap == 2          \* sink capacities 1..MaxCap
MaxWriteLen == 2     \* length of one written slice / frame payload
MaxWrites == 3       \* Write calls on one sink
MaxFrames == 2       \* frames on one attach stream
TicksPerSecond == 2  \* resolution of the clock: instants per second
BodyCap == 2         \* the request cap of io.LimitReader, in the units bodies are measured in
MaxDoc == 2          \* length of the JSON document of a request body
MaxPad == 2          \* white space following the document in a request body
MaxChunks == 1       \* chunks of output the shell of a terminal session produces
MaxMsgs == 1         \* messages the client of a terminal session sends
MaxSegs == 2         \* path segments after /terminal/ in a terminal request
MaxFileLen == 3      \* length of the content handed to WriteFile
BufLen == 2          \* the length of buf in the downstream loop, in bytes of the model
MaxOut == 3          \* bytes the shell of a terminal session writes
MaxTyped == 2        \* bytes the client of a terminal session sends, over all its frames
MaxSends == 2        \* frames the client of a terminal session sends
MaxLines == 2        \* lines the command of ListDir prints
MaxFields == 4       \* tab-separated fields on one of these lines

Procs == 1..NumProcs
Ids == 1..NumIds
TTLs == 1..MaxTTL

\* ttl_ms values of create requests: absent (0) or positive, counted in clock ticks
TTLInputs == {0} \cup TTLs
NoCID == 0

(* ---- static tables ---- *)
templates ==
  [t \in {"python", "node", "go"} |->
     CASE t = "python" -> "python:3.11-slim"
       [] t = "node"   -> "node:20-slim"
       [] t = "go"     -> "golang:1.22-alpine"]

TemplateInputs == DOMAIN templates \cup {"ruby", ""}

\* the templates requested while handlers race each other and the reaper
RaceTemplates == {"python", "ruby"}

VARIABLES
  sandboxes,    \* p.sandboxes: id -> Sandbox record
  containers,   \* the runtime: container id -> [state, started, name, config]
  images,       \* the runtime: images present locally
  now,          \* the clock
  req,          \* per request handler: its position and locals
  last,         \* the outcome of the request that returned most recently
  gc,           \* the reaper goroutine: position, snapshot, locals
  issued,       \* history: ids returned by successful Create calls, in order
  removeCalls,  \* history: container id -> ContainerRemove calls made by Delete
  unregistered, \* history: container ids whose record a Delete took out of the map
  lw,           \* a limitedWriter and its underlying bytes.Buffer
  lwHist,       \* history of the Write calls made on lw
  ex,           \* one exec request: position, context, stream, sinks, outcome
  rpc,          \* one HTTP request in Server.ServeHTTP: body, parsed request, response
  term,         \* one terminal connection in TerminalHandler.ServeHTTP and its two loops
  lk,           \* p.mu and the position of every goroutine in the method it runs
  fio,          \* one WriteFile followed by one ReadFile on the same path
  cp,           \* the two copy loops of a terminal session and the bytes they carry
  ld,           \* one ListDir: the output of its command and the entries parsed from it
  dur           \* one sandbox.v1.create: ttl_ms and the durations computed from it

regVars == <<sandboxes, containers, images, now, req, last, gc, issued, removeCalls, unregistered>>
lwVars == <<lw, lwHist>>
exVars == <<ex>>
rpcVars == <<rpc>>
termVars == <<term>>
lockVars == <<lk>>
fileVars == <<fio>>
copyVars == <<cp>>
listVars == <<ld>>
ttlVars == <<dur>>
vars == <<sandboxes, containers, images, now, req, last, gc, issued, removeCalls, unregistered,
          lw, lwHist, ex, rpc, term, lk, fio, cp, ld, dur>>

(***************************************************************************)
(* Registry primitives                                                     *)
(***************************************************************************)
lookup(reg, id) == id \in DOMAIN reg

RegistryInsert_Reset(reg, id, rec) == [i \in {id} |-> rec]

\* p.sandboxes[sandboxID] = &Sandbox{...}
RegistryInsert(reg, id, rec) ==
  [i \in DOMAIN reg \cup {id} |-> IF i = id THEN rec ELSE reg[i]]

RegistryDelete_Keep(reg, id) == reg

RegistryDelete(reg, id) == [i \in DOMAIN reg \ {id} |-> reg[i]]

Sandbox(id, cid, template, created, ttl) ==
  [ID |-> id, ContainerID |-> cid, Template |-> template,
   CreatedAt |-> created, ExpiresAt |-> created + ttl]

(***************************************************************************)
(* The container configuration Create hands to ContainerCreate             *)
(***************************************************************************)
ContainerConfig_Net(img) ==
  [Image |-> img, Cmd |-> <<"sleep", "infinity">>, WorkingDir |-> "/workspace",
   Tty |-> FALSE, OpenStdin |-> TRUE,
   CapDrop |-> <<"ALL">>,
   NetworkMode |-> IF img = "node:20-slim" THEN "bridge" ELSE "none",
   SecurityOpt |-> <<"no-new-privileges">>,
   Memory |-> 512 * 1024 * 1024, MemorySwap |-> 512 * 1024 * 1024,
   CPUPeriod |-> 100000, CPUQuota |-> 50000, PidsLimit |-> 100]

ContainerConfig(img) ==
  [Image |-> img, Cmd |-> <<"sleep", "infinity">>, WorkingDir |-> "/workspace",
   Tty |-> FALSE, OpenStdin |-> TRUE,
   CapDrop |-> <<"ALL">>,
   NetworkMode |-> "none",
   SecurityOpt |-> <<"no-new-privileges">>,
   Memory |-> 512 * 1024 * 1024, MemorySwap |-> 512 * 1024 * 1024,
   CPUPeriod |-> 100000, CPUQuota |-> 50000, PidsLimit |-> 100]

(***************************************************************************)
(* Runtime (Docker daemon) as seen through the client                      *)
(***************************************************************************)
NextCID == Cardinality(DOMAIN containers) + 1

\* the daemon refuses a second container under a name still in use
NameInUse(name) ==
  \E c \in DOMAIN containers : containers[c].name = name /\ containers[c].state # "removed"

SetContainerState(c, s) == [containers EXCEPT ![c].state = s]

IdleReq == [pc |-> "idle", op |-> "none", id |-> 0, template |-> "", ttlms |-> 0, ttl |-> 0,
            cid |-> NoCID, now |-> 0, ctxErr |-> "nil"]

(***************************************************************************)
(* The JSON-RPC envelope                                                   *)
(***************************************************************************)
\* rpcErr(code, msg, typ, retryable, details): the error member of a response
rpcErr(code, typ, retryable, details) ==
  [kind |-> "error", code |-> code, type |-> typ, retryable |-> retryable, details |-> details]

\* a response carrying a result member
rpcResult == [kind |-> "result", code |-> 0, type |-> "", retryable |-> FALSE, details |-> ""]

NoReply == [kind |-> "none", code |-> 0, type |-> "", retryable |-> FALSE, details |-> ""]

\* time.Time.Format(time.RFC3339): the instant to the second, its fraction dropped
RFC3339(t) == t \div TicksPerSecond

\* ttl = 10 * time.Minute
DefaultTTL == 600 * TicksPerSecond

\* ttl := time.Duration(p.TTLMS) * time.Millisecond; if p.TTLMS <= 0 { ttl = 10 * time.Minute }
EffectiveTTL(ttlms) == IF ttlms <= 0 THEN DefaultTTL ELSE ttlms

InvalidParams == rpcErr(-32001, "INVALID_PARAMS", FALSE, "")

\* case "sandbox.v1.create": the response to what Create returned
CreateResponse(res) ==
  IF res = "ok" THEN rpcResult
  ELSE rpcErr(-32003, "CONTAINER_CREATE_FAILED", TRUE, "err")

DeleteResponse_Final(res) ==
  IF res = "ok" THEN rpcResult
  ELSE rpcErr(-32007, "DELETE_FAILED", FALSE, "err")

\* case "sandbox.v1.delete": the response to what Delete returned
DeleteResponse(res) ==
  IF res = "ok" THEN rpcResult
  ELSE rpcErr(-32007, "DELETE_FAILED", TRUE, "err")

NoReturn_Called == [op |-> "none", id |-> 0, cid |-> NoCID, result |-> "none", rt |-> TRUE,
                    reply |-> NoReply, ttlms |-> 0, createdAt |-> 0, expiresAt |-> 0]

\* what a call hands back; rt tells whether it made a call to the runtime
NoReturn == [op |-> "none", id |-> 0, cid |-> NoCID, result |-> "none", rt |-> FALSE,
             reply |-> NoReply, ttlms |-> 0, createdAt |-> 0, expiresAt |-> 0]

\* the reaper between two passes; failed tells whether a Delete of the pass failed
GcWait == [pc |-> "wait", now |-> 0, toDelete |-> {}, id |-> 0, cid |-> NoCID,
           ctxErr |-> "none", failed |-> FALSE]

RegInit ==
  /\ sandboxes = << >>
  /\ containers = << >>
  /\ images = {}
  /\ now = 0
  /\ req = [p \in Procs |-> IdleReq]
  /\ last = NoReturn
  /\ gc = GcWait
  /\ issued = << >>
  /\ removeCalls = << >>
  /\ unregistered = {}

NoSink == [buf |-> << >>, Max |-> 0, Written |-> 0, Truncated |-> FALSE]

LWIdle == lw = NoSink
          /\ lwHist = [offered |-> << >>, calls |-> 0, n |-> 0, len |-> 0, err |-> "nil"]

ExIdle == ex = [pc |-> "off"]

RpcIdle == rpc = [pc |-> "off"]

TermIdle == term = [pc |-> "off"]

LockIdle == lk = [pc |-> "off"]

FileIdle == fio = [pc |-> "off"]

\* the variables of the copy loops, of ListDir and of the ttl computation, unused
OthersIdle == cp = [pc |-> "off"] /\ ld = [pc |-> "off"] /\ dur = [pc |-> "off"]

(***************************************************************************)
(* Request handlers: DockerProvider.Create                                 *)
(***************************************************************************)
CtxOK(p) == req[p].ctxErr = "nil"

\* what a returning handler leaves behind: its operation, id, container, outcome
\* and whether it has called the runtime
Outcome(r, res) ==
  [NoReturn EXCEPT !.op = r.op, !.id = r.id, !.cid = r.cid, !.result = res, !.rt = TRUE,
                   !.reply = IF r.op = "create" THEN CreateResponse(res)
                             ELSE DeleteResponse(res)]

Step(r, pc) == [r EXCEPT !.pc = pc]

\* the client goes away while its request is in flight: r.Context() is cancelled
Cancel(p) ==
  /\ req[p].pc # "idle"
  /\ req[p].ctxErr = "nil"
  /\ req' = [req EXCEPT ![p].ctxErr = "Canceled"]
  /\ UNCHANGED <<sandboxes, containers, images, now, last, gc, issued, removeCalls, unregistered>>
  /\ UNCHANGED <<lwVars, exVars, rpcVars, termVars, lockVars, fileVars, copyVars, listVars, ttlVars>>

\* case "sandbox.v1.create" up to the template lookup that opens Create
CreateBegin(p, t, ttlms) ==
  /\ req[p].pc = "idle"
  /\ IF t = ""
     THEN /\ last' = [NoReturn EXCEPT !.op = "create", !.result = "invalid_params",
                                      !.reply = InvalidParams]
          /\ UNCHANGED req
     ELSE IF t \in DOMAIN templates
     THEN /\ req' = [req EXCEPT ![p] = [IdleReq EXCEPT !.pc = "c_image", !.op = "create",
                                                       !.template = t, !.ttlms = ttlms,
                                                       !.ttl = EffectiveTTL(ttlms)]]
          /\ UNCHANGED last
     ELSE /\ last' = [NoReturn EXCEPT !.op = "create", !.result = "unknown_template",
                                      !.reply = CreateResponse("unknown_template")]
          /\ UNCHANGED req
  /\ UNCHANGED <<sandboxes, containers, images, now, gc, issued, removeCalls, unregistered>>
  /\ UNCHANGED <<lwVars, exVars, rpcVars, termVars, lockVars, fileVars, copyVars, listVars, ttlVars>>

\* ImageInspectWithRaw, then ImagePull and io.Copy of its progress stream
CreateImage(p) ==
  /\ req[p].pc = "c_image"
  /\ LET img == templates[req[p].template] IN
     \/ /\ img \in images /\ CtxOK(p)                       \* inspect succeeds
        /\ req' = [req EXCEPT ![p] = Step(@, "c_create")]
        /\ UNCHANGED <<images, last>>
     \/ /\ req' = [req EXCEPT ![p] = IdleReq]               \* ImagePull refused
        /\ last' = Outcome(req[p], "pull_failed")
        /\ UNCHANGED images
     \/ /\ CtxOK(p)                                         \* pull starts, stream breaks
        /\ req' = [req EXCEPT ![p] = Step(@, "c_create")]
        /\ UNCHANGED <<images, last>>
     \/ /\ CtxOK(p)                                         \* pull runs to completion
        /\ req' = [req EXCEPT ![p] = Step(@, "c_create")]
        /\ images' = images \cup {img}
        /\ UNCHANGED last
  /\ UNCHANGED <<sandboxes, containers, now, gc, issued, removeCalls, unregistered>>
  /\ UNCHANGED <<lwVars, exVars, rpcVars, termVars, lockVars, fileVars, copyVars, listVars, ttlVars>>

\* sandboxID := uuid.New().String()[:8]; ContainerCreate(..., "sandbox-"+sandboxID)
CreateContainer(p) ==
  /\ req[p].pc = "c_create"
  /\ LET img == templates[req[p].template] IN
     \/ \E sid \in Ids :
          /\ CtxOK(p) /\ img \in images /\ ~NameInUse(sid) /\ NextCID <= MaxCreates
          /\ containers' = containers @@
               (NextCID :> [state |-> "created", started |-> FALSE, name |-> sid,
                            config |-> ContainerConfig(img)])
          /\ removeCalls' = removeCalls @@ (NextCID :> 0)
          /\ req' = [req EXCEPT ![p] = [Step(@, "c_start") EXCEPT !.id = sid, !.cid = NextCID]]
          /\ UNCHANGED last
     \/ /\ req' = [req EXCEPT ![p] = IdleReq]
        /\ last' = Outcome(req[p], "create_failed")
        /\ UNCHANGED <<containers, removeCalls>>
  /\ UNCHANGED <<sandboxes, images, now, gc, issued, unregistered>>
  /\ UNCHANGED <<lwVars, exVars, rpcVars, termVars, lockVars, fileVars, copyVars, listVars, ttlVars>>

NextAfterStart_Ignore(ok) == "c_insert"

\* if err := ContainerStart(...); err != nil { cleanup; return } ; now := time.Now()
NextAfterStart(ok) == IF ok THEN "c_insert" ELSE "c_cleanup"

CreateStart(p) ==
  /\ req[p].pc = "c_start"
  /\ \/ /\ CtxOK(p)
        /\ containers' = [containers EXCEPT ![req[p].cid].state = "running",
                                            ![req[p].cid].started = TRUE]
        /\ req' = [req EXCEPT ![p] = [Step(@, NextAfterStart(TRUE)) EXCEPT !.now = now]]
     \/ /\ req' = [req EXCEPT ![p] = Step(@, NextAfterStart(FALSE))]
        /\ UNCHANGED containers
  /\ UNCHANGED <<sandboxes, images, now, last, gc, issued, removeCalls, unregistered>>
  /\ UNCHANGED <<lwVars, exVars, rpcVars, termVars, lockVars, fileVars, copyVars, listVars, ttlVars>>

\* _ = ContainerRemove(ctx, resp.ID, Force) with the request's own context
CreateCleanup(p) ==
  /\ req[p].pc = "c_cleanup"
  /\ \/ /\ CtxOK(p)
        /\ containers' = SetContainerState(req[p].cid, "removed")
     \/ UNCHANGED containers
  /\ req' = [req EXCEPT ![p] = IdleReq]
  /\ last' = Outcome(req[p], "start_failed")
  /\ UNCHANGED <<sandboxes, images, now, gc, issued, removeCalls, unregistered>>
  /\ UNCHANGED <<lwVars, exVars, rpcVars, termVars, lockVars, fileVars, copyVars, listVars, ttlVars>>

\* p.mu.Lock(); p.sandboxes[sandboxID] = &Sandbox{...}; p.mu.Unlock(); return;
\* the transport reads the clock again and formats the result
CreateInsert(p) ==
  /\ req[p].pc = "c_insert"
  /\ sandboxes' = RegistryInsert(sandboxes, req[p].id,
        Sandbox(req[p].id, req[p].cid, req[p].template, req[p].now, req[p].ttl))
  /\ issued' = Append(issued, req[p].id)
  /\ req' = [req EXCEPT ![p] = IdleReq]
  /\ last' = [Outcome(req[p], "ok") EXCEPT !.ttlms = req[p].ttlms,
                                           !.createdAt = RFC3339(now),
                                           !.expiresAt = RFC3339(req[p].now + req[p].ttl)]
  /\ UNCHANGED <<containers, images, now, gc, removeCalls, unregistered>>
  /\ UNCHANGED <<lwVars, exVars, rpcVars, termVars, lockVars, fileVars, copyVars, listVars, ttlVars>>

(***************************************************************************)
(* DockerProvider.Delete and the registry lookup of the read operations    *)
(***************************************************************************)
DeleteBegin(p, id) ==
  /\ req[p].pc = "idle"
  /\ IF lookup(sandboxes, id)
     THEN /\ sandboxes' = RegistryDelete(sandboxes, id)
          /\ unregistered' = unregistered \cup {sandboxes[id].ContainerID}
          /\ req' = [req EXCEPT ![p] = [IdleReq EXCEPT !.pc = "d_remove", !.op = "delete",
                                           !.id = id, !.cid = sandboxes[id].ContainerID]]
          /\ UNCHANGED last
     ELSE /\ last' = [NoReturn EXCEPT !.op = "delete", !.id = id, !.result = "not_found",
                                      !.reply = DeleteResponse("not_found")]
          /\ UNCHANGED <<sandboxes, unregistered, req>>
  /\ UNCHANGED <<containers, images, now, gc, issued, removeCalls>>
  /\ UNCHANGED <<lwVars, exVars, rpcVars, termVars, lockVars, fileVars, copyVars, listVars, ttlVars>>

DeleteRemove(p) ==
  /\ req[p].pc = "d_remove"
  /\ removeCalls' = [removeCalls EXCEPT ![req[p].cid] = @ + 1]
  /\ \/ /\ CtxOK(p) /\ containers[req[p].cid].state # "removed"
        /\ containers' = SetContainerState(req[p].cid, "removed")
        /\ last' = Outcome(req[p], "ok")
     \/ /\ last' = Outcome(req[p], "remove_failed")
        /\ UNCHANGED containers
  /\ req' = [req EXCEPT ![p] = IdleReq]
  /\ UNCHANGED <<sandboxes, images, now, gc, issued, unregistered>>
  /\ UNCHANGED <<lwVars, exVars, rpcVars, termVars, lockVars, fileVars, copyVars, listVars, ttlVars>>

GetContainerID_Live(p, id) ==
  /\ req[p].pc = "idle"
  /\ last' = IF lookup(sandboxes, id) /\ now <= sandboxes[id].ExpiresAt
             THEN [NoReturn EXCEPT !.op = "lookup", !.id = id, !.result = "found",
                                   !.cid = sandboxes[id].ContainerID]
             ELSE [NoReturn EXCEPT !.op = "lookup", !.id = id, !.result = "not_found"]
  /\ UNCHANGED <<sandboxes, containers, images, now, req, gc, issued, removeCalls, unregistered>>
  /\ UNCHANGED <<lwVars, exVars, rpcVars, termVars, lockVars, fileVars, copyVars, listVars, ttlVars>>

\* the RLock'd map read that opens Exec, WriteFile, ReadFile, ListDir, GetContainerID
GetContainerID(p, id) ==
  /\ req[p].pc = "idle"
  /\ last' = IF lookup(sandboxes, id)
             THEN [NoReturn EXCEPT !.op = "lookup", !.id = id, !.result = "found",
                                   !.cid = sandboxes[id].ContainerID]
             ELSE [NoReturn EXCEPT !.op = "lookup", !.id = id, !.result = "not_found"]
  /\ UNCHANGED <<sandboxes, containers, images, now, req, gc, issued, removeCalls, unregistered>>
  /\ UNCHANGED <<lwVars, exVars, rpcVars, termVars, lockVars, fileVars, copyVars, listVars, ttlVars>>

(***************************************************************************)
(* The reaper: gcLoop / cleanupExpired                                     *)
(***************************************************************************)
expired_ids_Before(reg, t) == {id \in DOMAIN reg : t < reg[id].ExpiresAt}

\* now.After(sb.ExpiresAt)
expired_ids(reg, t) == {id \in DOMAIN reg : t > reg[id].ExpiresAt}

GcNext_Stop(g, rest) == GcWait

\* _ = p.Delete(ctx, id); cancel(); the range loop goes on to the next id
GcNext(g, rest) ==
  IF rest = {} THEN GcWait
  ELSE [g EXCEPT !.pc = "loop", !.toDelete = rest, !.id = 0, !.cid = NoCID, !.ctxErr = "none"]

GcTick ==
  /\ gc.pc = "wait"
  /\ expired_ids(sandboxes, now) # {}
  /\ gc' = [GcWait EXCEPT !.pc = "loop", !.now = now, !.toDelete = expired_ids(sandboxes, now)]
  /\ UNCHANGED <<sandboxes, containers, images, now, req, last, issued, removeCalls, unregistered>>
  /\ UNCHANGED <<lwVars, exVars, rpcVars, termVars, lockVars, fileVars, copyVars, listVars, ttlVars>>

GcDelete ==
  /\ gc.pc = "loop"
  /\ \E id \in gc.toDelete :
       IF lookup(sandboxes, id)
       THEN /\ sandboxes' = RegistryDelete(sandboxes, id)
            /\ unregistered' = unregistered \cup {sandboxes[id].ContainerID}
            /\ gc' = [gc EXCEPT !.pc = "remove", !.toDelete = @ \ {id}, !.id = id,
                                !.cid = sandboxes[id].ContainerID, !.ctxErr = "nil"]
       ELSE /\ gc' = GcNext([gc EXCEPT !.failed = TRUE], gc.toDelete \ {id})
            /\ UNCHANGED <<sandboxes, unregistered>>
  /\ UNCHANGED <<containers, images, now, req, last, issued, removeCalls>>
  /\ UNCHANGED <<lwVars, exVars, rpcVars, termVars, lockVars, fileVars, copyVars, listVars, ttlVars>>

\* the 10 s of context.WithTimeout(context.Background(), 10*time.Second) run out
GcTimeout ==
  /\ gc.pc = "remove" /\ gc.ctxErr = "nil"
  /\ gc' = [gc EXCEPT !.ctxErr = "DeadlineExceeded"]
  /\ UNCHANGED <<sandboxes, containers, images, now, req, last, issued, removeCalls, unregistered>>
  /\ UNCHANGED <<lwVars, exVars, rpcVars, termVars, lockVars, fileVars, copyVars, listVars, ttlVars>>

GcRemove ==
  /\ gc.pc = "remove"
  /\ removeCalls' = [removeCalls EXCEPT ![gc.cid] = @ + 1]
  /\ \/ /\ gc.ctxErr = "nil" /\ containers[gc.cid].state # "removed"
        /\ containers' = SetContainerState(gc.cid, "removed")
        /\ gc' = GcNext(gc, gc.toDelete)
     \/ /\ UNCHANGED containers
        /\ gc' = GcNext([gc EXCEPT !.failed = TRUE], gc.toDelete)
  /\ UNCHANGED <<sandboxes, images, now, req, last, issued, unregistered>>
  /\ UNCHANGED <<lwVars, exVars, rpcVars, termVars, lockVars, fileVars, copyVars, listVars, ttlVars>>

Tick ==
  /\ now < MaxTime
  /\ now' = now + 1
  /\ UNCHANGED <<sandboxes, containers, images, req, last, gc, issued, removeCalls, unregistered>>
  /\ UNCHANGED <<lwVars, exVars, rpcVars, termVars, lockVars, fileVars, copyVars, listVars, ttlVars>>

Init == RegInit /\ LWIdle /\ ExIdle /\ RpcIdle /\ TermIdle /\ LockIdle /\ FileIdle /\ OthersIdle

Next ==
  \/ \E p \in Procs, t \in RaceTemplates, ttlms \in TTLs : CreateBegin(p, t, ttlms)
  \/ \E p \in Procs : CreateImage(p)
  \/ \E p \in Procs : CreateContainer(p)
  \/ \E p \in Procs : CreateStart(p)
  \/ \E p \in Procs : CreateCleanup(p)
  \/ \E p \in Procs : CreateInsert(p)
  \/ \E p \in Procs, id \in Ids : DeleteBegin(p, id)
  \/ \E p \in Procs : DeleteRemove(p)
  \/ \E p \in Procs, id \in Ids : GetContainerID(p, id)
  \/ GcTick
  \/ GcDelete
  \/ GcRemove
  \/ GcTimeout
  \/ Tick

Spec == Init /\ [][Next]_vars

(***************************************************************************)
(* One handler alone, every template, with its request context cancellable *)
(***************************************************************************)
NextCreate ==
  \/ \E t \in TemplateInputs, ttlms \in TTLInputs : CreateBegin(1, t, ttlms)
  \/ CreateImage(1)
  \/ CreateContainer(1)
  \/ CreateStart(1)
  \/ CreateCleanup(1)
  \/ CreateInsert(1)
  \/ \E id \in Ids : DeleteBegin(1, id)
  \/ DeleteRemove(1)
  \/ Cancel(1)
  \/ Tick

SpecCreate == Init /\ [][NextCreate]_vars

(***************************************************************************)
(* Properties of the registry lifecycle                                    *)
(***************************************************************************)
Range(f) == {f[i] : i \in DOMAIN f}

Registered(c) == \E id \in DOMAIN sandboxes : sandboxes[id].ContainerID = c

\* the Delete calls (handlers and the reaper) standing at ContainerRemove for c
InRemoval(c) ==
  Cardinality({p \in Procs : req[p].pc = "d_remove" /\ req[p].cid = c})
    + (IF gc.pc = "remove" /\ gc.cid = c THEN 1 ELSE 0)

\* the step in which a Delete (a handler's or the reaper's) takes id out of the map
DeleteStep(id) ==
  \/ \E p \in Procs : req[p].pc = "idle" /\ req'[p].pc = "d_remove" /\ req'[p].id = id
  \/ gc.pc = "loop" /\ gc'.pc = "remove" /\ gc'.id = id

\* C1: an id returned by a successful Create stays in the registry until a Delete
\* (a handler's or the reaper's) removes it, and once removed is never found again.
C1_LookupUntilDeleted ==
  [][\A id \in Ids :
       /\ (lookup(sandboxes, id) /\ ~lookup(sandboxes', id)) => DeleteStep(id)
       /\ (id \in Range(issued) /\ ~lookup(sandboxes, id)) => ~lookup(sandboxes', id)]_vars

\* C2: a record leaves the registry before its container is removed: of all Delete
\* calls exactly one reaches ContainerRemove for a record's container, and a Delete
\* that finds no record returns not-found without calling the runtime.
C2_DeleteOnce ==
  /\ \A c \in DOMAIN containers :
       /\ removeCalls[c] + InRemoval(c) = (IF c \in unregistered THEN 1 ELSE 0)
       /\ c \in unregistered => ~Registered(c)
  /\ (last.op = "delete" /\ last.result = "not_found") => (~last.rt /\ last.cid = NoCID)

\* a Delete observed not-found while another Delete of the same id was still removing
C2_Witness ==
  /\ last.op = "delete" /\ last.result = "not_found"
  /\ \/ \E p \in Procs : req[p].pc = "d_remove" /\ req[p].id = last.id
     \/ gc.pc = "remove" /\ gc.id = last.id

\* C3: no id is returned by two successful Create calls of one process lifetime.
C3_IdsNeverReused ==
  \A i, j \in 1..Len(issued) : i # j => issued[i] # issued[j]

\* C4: every record of the registry refers to a container whose ContainerCreate and
\* ContainerStart both succeeded.
C4_RegisteredStarted ==
  \A id \in DOMAIN sandboxes :
    /\ sandboxes[id].ContainerID \in DOMAIN containers
    /\ containers[sandboxes[id].ContainerID].started

\* a registered sandbox beside a container whose start failed
C4_Witness ==
  /\ DOMAIN sandboxes # {}
  /\ \E c \in DOMAIN containers : ~containers[c].started /\ ~Registered(c)
  /\ last.op = "create" /\ last.result = "start_failed"

\* C5: a Create that returned an error left the registry as it was and left no
\* container of its own in the runtime.
C5_FailedCreateLeavesNothing ==
  (last.op = "create" /\ last.result # "ok") =>
     \/ last.cid = NoCID
     \/ containers[last.cid].state = "removed" /\ ~Registered(last.cid)

\* C6: every container the service creates has the fixed security posture, whatever
\* the template and ttl of the request.
C6_SecurityPosture ==
  \A c \in DOMAIN containers :
    LET k == containers[c].config IN
      /\ k.CapDrop = <<"ALL">>
      /\ k.NetworkMode = "none"
      /\ k.SecurityOpt = <<"no-new-privileges">>
      /\ k.Memory = 512 * 1024 * 1024 /\ k.MemorySwap = k.Memory
      /\ k.CPUQuota = 50000 /\ k.CPUPeriod = 100000
      /\ k.PidsLimit = 100
      /\ k.Cmd = <<"sleep", "infinity">>
      /\ k.WorkingDir = "/workspace"
      /\ k.Tty = FALSE

\* containers created for two different templates
C6_Witness ==
  \E c, d \in DOMAIN containers :
    containers[c].config.Image = "node:20-slim" /\ containers[d].config.Image = "golang:1.22-alpine"

(***************************************************************************)
(* limitedWriter: the bounded capturing sink                               *)
(***************************************************************************)
Bytes == {"a", "b"}

\* the byte slices handed to one Write call, the empty slice included
Slices == UNION {[1..n -> Bytes] : n \in 0..MaxWriteLen}

\* bytes.Buffer.Write: appends the whole slice, returns its length and no error
BufferWrite(buf, p) == [buf |-> buf \o p, n |-> Len(p), err |-> "nil"]

limitedWriter_Write_NoCut(w, p) ==
  IF w.Written >= w.Max
  THEN [w |-> [w EXCEPT !.Truncated = TRUE], n |-> Len(p), err |-> "nil"]
  ELSE LET r == BufferWrite(w.buf, p)
       IN [w |-> [w EXCEPT !.Truncated = @ \/ (Len(p) > w.Max - w.Written),
                           !.buf = r.buf, !.Written = @ + r.n],
           n |-> r.n, err |-> r.err]

\* func (lw *limitedWriter) Write(p []byte) (int, error)
limitedWriter_Write(w, p) ==
  IF w.Written >= w.Max
  THEN [w |-> [w EXCEPT !.Truncated = TRUE], n |-> Len(p), err |-> "nil"]
  ELSE LET remaining == w.Max - w.Written
           q == IF Len(p) > remaining THEN SubSeq(p, 1, remaining) ELSE p
           r == BufferWrite(w.buf, q)
       IN [w |-> [w EXCEPT !.Truncated = @ \/ (Len(p) > remaining),
                           !.buf = r.buf, !.Written = @ + r.n],
           n |-> r.n, err |-> r.err]

NewSink(max) == [NoSink EXCEPT !.Max = max]

InitLW ==
  /\ RegInit /\ ExIdle /\ RpcIdle /\ TermIdle /\ LockIdle /\ FileIdle /\ OthersIdle
  /\ \E max \in 1..MaxCap : lw = NewSink(max)
  /\ lwHist = [offered |-> << >>, calls |-> 0, n |-> 0, len |-> 0, err |-> "nil"]

Write(p) ==
  /\ lwHist.calls < MaxWrites
  /\ LET r == limitedWriter_Write(lw, p) IN
       /\ lw' = r.w
       /\ lwHist' = [offered |-> lwHist.offered \o p, calls |-> lwHist.calls + 1,
                     n |-> r.n, len |-> Len(p), err |-> r.err]
  /\ UNCHANGED <<regVars, exVars, rpcVars, termVars, lockVars, fileVars, copyVars, listVars, ttlVars>>

NextLW == \E p \in Slices : Write(p)

SpecLW == InitLW /\ [][NextLW]_vars

\* C7: the buffer holds exactly Written bytes, Written never exceeds Max, and the
\* bytes held are the first Written bytes of everything written, in order.
C7_SinkHoldsPrefix ==
  /\ Len(lw.buf) = lw.Written
  /\ 0 <= lw.Written /\ lw.Written <= lw.Max
  /\ lw.Written <= Len(lwHist.offered)
  /\ lw.buf = SubSeq(lwHist.offered, 1, lw.Written)

\* more was written than the sink holds, in several calls, and the sink is full
C7_Witness ==
  /\ lwHist.calls >= 2
  /\ Len(lwHist.offered) > lw.Max
  /\ lw.Written = lw.Max

\* C8: Truncated is raised exactly when more than Max bytes were offered in total.
C8_TruncatedIffOverflow ==
  lw.Truncated <=> (Len(lwHist.offered) > lw.Max)

\* C9: every Write returns no error and reports the whole slice as consumed.
C9_WriteReportsFullLength ==
  lwHist.calls > 0 => (lwHist.err = "nil" /\ lwHist.n = lwHist.len)

(***************************************************************************)
(* One sandbox.v1.exec request: the handler's deadline context and         *)
(* DockerProvider.Exec with its two sinks behind stdcopy.StdCopy           *)
(***************************************************************************)
Frames == [fd : {"stdout", "stderr"}, data : Slices]

Streams == UNION {[1..n -> Frames] : n \in 0..MaxFrames}

ExitCodes == {0, 1}

\* a registry holding sandbox 1 on a running container, as a finished Create leaves it
InitExec ==
  /\ sandboxes = (1 :> Sandbox(1, 1, "python", 0, 1))
  /\ containers = (1 :> [state |-> "running", started |-> TRUE, name |-> 1,
                         config |-> ContainerConfig(templates["python"])])
  /\ images = {templates["python"]}
  /\ now = 0
  /\ req = [p \in Procs |-> IdleReq]
  /\ last = [NoReturn EXCEPT !.op = "create", !.id = 1, !.cid = 1, !.result = "ok",
                             !.rt = TRUE, !.reply = rpcResult, !.ttlms = 1]
  /\ gc = GcWait
  /\ issued = <<1>>
  /\ removeCalls = (1 :> 0)
  /\ unregistered = {}
  /\ LWIdle /\ RpcIdle /\ TermIdle /\ LockIdle /\ FileIdle /\ OthersIdle
  /\ \E id \in Ids, st \in Streams, mo \in 1..MaxCap, me \in 1..MaxCap :
       ex = [pc |-> "lookup", id |-> id, cid |-> NoCID, ctxErr |-> "nil", firedAt |-> "none",
             stream |-> st, exited |-> FALSE, maxOut |-> mo, maxErr |-> me,
             stdout |-> NoSink, stderr |-> NoSink,
             readEnd |-> "none", firedBeforeClose |-> FALSE,
             inspect |-> "none", rtCode |-> -1,
             retOut |-> << >>, retErr |-> << >>, outTrunc |-> FALSE, errTrunc |-> FALSE,
             timedOut |-> FALSE, exitCode |-> -1, err |-> "nil", cause |-> "nil",
             reply |-> NoReply]

ExCtxOK == ex.ctxErr = "nil"

ExRunning == ex.pc \in {"lookup", "create", "attach", "read", "check", "inspect"}

\* the timer of context.WithTimeout(r.Context(), timeoutMS) fires
Deadline ==
  /\ ExRunning /\ ExCtxOK
  /\ ex' = [ex EXCEPT !.ctxErr = "DeadlineExceeded", !.firedAt = ex.pc]
  /\ UNCHANGED <<regVars, lwVars, rpcVars, termVars, lockVars, fileVars, copyVars, listVars, ttlVars>>

\* the client abandons the request: the parent context is cancelled
CancelExec ==
  /\ ExRunning /\ ExCtxOK
  /\ ex' = [ex EXCEPT !.ctxErr = "Canceled"]
  /\ UNCHANGED <<regVars, lwVars, rpcVars, termVars, lockVars, fileVars, copyVars, listVars, ttlVars>>

\* what a failed runtime call returns: the context's error once the context is
\* done, an error of the runtime otherwise
CallError(e) == IF e.ctxErr = "nil" THEN "runtime" ELSE e.ctxErr

\* return ..., fmt.Errorf("<msg>: %w", err)
ExecFail(e, msg) == [e EXCEPT !.pc = "done", !.err = msg, !.cause = CallError(e)]

ExecLookup ==
  /\ ex.pc = "lookup"
  /\ ex' = IF lookup(sandboxes, ex.id)
           THEN [ex EXCEPT !.pc = "create", !.cid = sandboxes[ex.id].ContainerID]
           ELSE [ex EXCEPT !.pc = "done", !.err = "sandbox not found"]
  /\ UNCHANGED <<regVars, lwVars, rpcVars, termVars, lockVars, fileVars, copyVars, listVars, ttlVars>>

\* a forced ContainerRemove has taken the container, its processes and its exec
\* instances away
ContainerGone(cid) == containers[cid].state = "removed"

ExecCreate ==
  /\ ex.pc = "create"
  /\ \/ ExCtxOK /\ ~ContainerGone(ex.cid) /\ ex' = [ex EXCEPT !.pc = "attach"]
     \/ ex' = ExecFail(ex, "exec create failed")
  /\ UNCHANGED <<regVars, lwVars, rpcVars, termVars, lockVars, fileVars, copyVars, listVars, ttlVars>>

ExecAttach ==
  /\ ex.pc = "attach"
  /\ \/ ExCtxOK /\ ~ContainerGone(ex.cid)
        /\ ex' = [ex EXCEPT !.pc = "read", !.stdout = NewSink(ex.maxOut),
                                    !.stderr = NewSink(ex.maxErr)]
     \/ ex' = ExecFail(ex, "exec attach failed")
  /\ UNCHANGED <<regVars, lwVars, rpcVars, termVars, lockVars, fileVars, copyVars, listVars, ttlVars>>

\* StdCopy has returned: the read of the attach stream is over
ReadOver(e, why) ==
  [e EXCEPT !.pc = "check", !.readEnd = why,
            !.firedBeforeClose = (e.ctxErr = "DeadlineExceeded")]

\* the command terminates after its last frame and the runtime closes the stream;
\* a command may also never do so
CommandExits ==
  /\ ex.pc = "read" /\ ex.stream = << >> /\ ~ex.exited
  /\ ex' = [ex EXCEPT !.exited = TRUE]
  /\ UNCHANGED <<regVars, lwVars, rpcVars, termVars, lockVars, fileVars, copyVars, listVars, ttlVars>>

\* resp.Reader.Read returns: a frame is there, or the command has terminated and
\* the stream is at its end; the read takes no context, so it waits otherwise
ReadReady(e) == e.stream # << >> \/ e.exited

\* one turn of stdcopy.StdCopy: a frame goes to its sink, a short write or the
\* end of the stream ends the copy
StdCopy ==
  /\ ex.pc = "read"
  /\ ReadReady(ex) \/ ContainerGone(ex.cid)
  /\ IF ex.stream = << >>
     THEN ex' = ReadOver(ex, "eof")
     ELSE LET f == Head(ex.stream)
              r == limitedWriter_Write(IF f.fd = "stdout" THEN ex.stdout ELSE ex.stderr, f.data)
              e == IF f.fd = "stdout"
                   THEN [ex EXCEPT !.stdout = r.w, !.stream = Tail(@)]
                   ELSE [ex EXCEPT !.stderr = r.w, !.stream = Tail(@)]
          IN ex' = IF r.err # "nil" \/ r.n # Len(f.data)
                   THEN ReadOver(e, "short write")
                   ELSE e
  /\ UNCHANGED <<regVars, lwVars, rpcVars, termVars, lockVars, fileVars, copyVars, listVars, ttlVars>>

\* the attach connection breaks under the reader (container killed or removed)
ReadError ==
  /\ ex.pc = "read"
  /\ ex' = ReadOver(ex, "read error")
  /\ UNCHANGED <<regVars, lwVars, rpcVars, termVars, lockVars, fileVars, copyVars, listVars, ttlVars>>

CtxTimedOut_Any(err) == err # "nil"

\* ctx.Err() == context.DeadlineExceeded
CtxTimedOut(err) == err = "DeadlineExceeded"

ExecCheck ==
  /\ ex.pc = "check"
  /\ ex' = [ex EXCEPT !.pc = "inspect", !.timedOut = CtxTimedOut(ex.ctxErr)]
  /\ UNCHANGED <<regVars, lwVars, rpcVars, termVars, lockVars, fileVars, copyVars, listVars, ttlVars>>

ExecReturn_Raise(e, inspectErr, code) ==
  IF inspectErr
  THEN [e EXCEPT !.pc = "done", !.exitCode = -1, !.err = "exec inspect failed",
                 !.cause = CallError(e)]
  ELSE [e EXCEPT !.pc = "done", !.exitCode = code,
                 !.retOut = e.stdout.buf, !.retErr = e.stderr.buf,
                 !.outTrunc = e.stdout.Truncated, !.errTrunc = e.stderr.Truncated]

\* the two return statements after ContainerExecInspect
ExecReturn(e, inspectErr, code) ==
  [e EXCEPT !.pc = "done", !.exitCode = IF inspectErr THEN -1 ELSE code,
            !.retOut = e.stdout.buf, !.retErr = e.stderr.buf,
            !.outTrunc = e.stdout.Truncated, !.errTrunc = e.stderr.Truncated]

ExecInspect ==
  /\ ex.pc = "inspect"
  /\ \/ /\ ExCtxOK /\ ~ContainerGone(ex.cid)
        /\ \E code \in ExitCodes :
             ex' = ExecReturn([ex EXCEPT !.inspect = "ok", !.rtCode = code], FALSE, code)
     \/ ex' = ExecReturn([ex EXCEPT !.inspect = "failed"], TRUE, -1)
  /\ UNCHANGED <<regVars, lwVars, rpcVars, termVars, lockVars, fileVars, copyVars, listVars, ttlVars>>

\* Server.ServeHTTP, case "sandbox.v1.exec": the response built from what Exec returned
ExecResponse(err, cause, timedOut) ==
  IF err # "nil"
  THEN IF cause = "DeadlineExceeded" \/ timedOut
       THEN rpcErr(-32004, "EXEC_TIMEOUT", TRUE, "timeout_ms")
       ELSE rpcErr(-32005, "EXEC_FAILED", TRUE, "err")
  ELSE rpcResult

ExecReply ==
  /\ ex.pc = "done"
  /\ ex' = [ex EXCEPT !.pc = "replied", !.reply = ExecResponse(ex.err, ex.cause, ex.timedOut)]
  /\ UNCHANGED <<regVars, lwVars, rpcVars, termVars, lockVars, fileVars, copyVars, listVars, ttlVars>>

NextExec ==
  \/ ExecLookup
  \/ ExecCreate
  \/ ExecAttach
  \/ StdCopy
  \/ CommandExits
  \/ ReadError
  \/ ExecCheck
  \/ ExecInspect
  \/ ExecReply
  \/ Deadline
  \/ CancelExec

SpecExec == InitExec /\ [][NextExec]_vars

\* the steps of the handler are taken when they can be and the timer fires; the
\* command terminating, the connection breaking and the client going away are left
\* to the environment
ExecFairness ==
  /\ WF_vars(ExecLookup) /\ WF_vars(ExecCreate) /\ WF_vars(ExecAttach)
  /\ WF_vars(StdCopy) /\ WF_vars(ExecCheck) /\ WF_vars(ExecInspect)
  /\ WF_vars(ExecReply) /\ WF_vars(Deadline)

SpecExecFair == SpecExec /\ ExecFairness

\* the exec request with Delete requests of another client beside it
NextExecDelete ==
  \/ NextExec
  \/ \E id \in Ids : DeleteBegin(1, id)
  \/ DeleteRemove(1)

SpecExecDelete == InitExec /\ [][NextExecDelete]_vars

\* Delete calls ContainerRemove once it has unlocked the registry
SpecExecDeleteFair == SpecExecDelete /\ ExecFairness /\ WF_vars(DeleteRemove(1))

ExecReturned == ex.pc \in {"done", "replied"} /\ ex.readEnd # "none"

\* C10: an Exec that read the stream reports timed_out exactly when the deadline
\* fired before the stream read was over.
C10_TimedOutIffFiredBeforeClose ==
  ExecReturned => (ex.timedOut <=> ex.firedBeforeClose)

\* C10 as amended: timed_out is reported exactly when the deadline had fired by the
\* time Exec tests ctx.Err(), which is after the stream read is over: a deadline
\* firing during the read or between the end of the read and the test sets it, one
\* firing after the test does not.
C10_TimedOutIffFiredBeforeCheck ==
  ExecReturned => (ex.timedOut <=> ex.firedAt \in {"read", "check"})

\* the deadline fired after the stream had closed and timed_out is reported
C10_Witness ==
  /\ ExecReturned /\ ex.readEnd = "eof"
  /\ ex.firedAt = "check" /\ ~ex.firedBeforeClose /\ ex.timedOut

\* C11: once the deadline has fired while Exec is reading the attach stream, Exec
\* eventually returns with timed_out set, whether or not the command terminates.
C11_DeadlineUnblocksRead ==
  (ex.pc = "read" /\ ex.ctxErr = "DeadlineExceeded")
     ~> (ex.pc \in {"done", "replied"} /\ ex.timedOut)

\* C12: a request whose deadline fired at exec-create, at attach or during the
\* stream read is answered with the retryable EXEC_TIMEOUT error carrying timeout_ms.
C12_DeadlineAnswersTimeout ==
  (ex.pc = "replied" /\ ex.firedAt \in {"create", "attach", "read"})
     => /\ ex.reply.kind = "error"
        /\ ex.reply.type = "EXEC_TIMEOUT"
        /\ ex.reply.retryable
        /\ ex.reply.details = "timeout_ms"

\* C13: an Exec that read the stream returns no error, the bytes and truncation
\* flags its sinks hold, and exit code -1 when the inspect failed, the runtime's
\* exit code when it succeeded.
C13_InspectFailureKeepsOutput ==
  ExecReturned =>
     /\ ex.err = "nil"
     /\ ex.retOut = ex.stdout.buf /\ ex.retErr = ex.stderr.buf
     /\ ex.outTrunc = ex.stdout.Truncated /\ ex.errTrunc = ex.stderr.Truncated
     /\ ex.inspect = "failed" => ex.exitCode = -1
     /\ ex.inspect = "ok" => ex.exitCode = ex.rtCode

\* the inspect failed after a truncated stdout was captured
C13_Witness ==
  /\ ExecReturned /\ ex.inspect = "failed"
  /\ ex.retOut # << >> /\ ex.outTrunc /\ ex.exitCode = -1

\* C14: a create request naming no known template is answered with the
\* non-retryable INVALID_PARAMS error before any call to the runtime.
C14_UnknownTemplateInvalidParams ==
  (last.op = "create" /\ last.result \in {"unknown_template", "invalid_params"})
     => /\ last.reply.kind = "error"
        /\ last.reply.type = "INVALID_PARAMS"
        /\ ~last.reply.retryable
        /\ ~last.rt

\* C15: the retryable hint is false on invalid-params errors and on a delete of an
\* id the registry does not hold, and true on container-create failures.
C15_RetryableHint ==
  /\ (last.reply.kind = "error" /\ last.reply.type = "INVALID_PARAMS")
        => ~last.reply.retryable
  /\ (last.op = "delete" /\ last.result = "not_found")
        => (last.reply.kind = "error" /\ ~last.reply.retryable)
  /\ (last.reply.kind = "error" /\ last.reply.type = "CONTAINER_CREATE_FAILED")
        => last.reply.retryable

CreateOK == last.op = "create" /\ last.result = "ok"

\* C18: in a successful create result expires_at is the returned created_at plus the
\* effective ttl (the default of 600 s when ttl_ms is not positive), and the returned
\* created_at is that of the registry record.
C18_ExpiresIsCreatedPlusTTL ==
  CreateOK =>
     LET ttl == IF last.ttlms <= 0 THEN 600 * TicksPerSecond ELSE last.ttlms IN
       /\ last.expiresAt * TicksPerSecond = last.createdAt * TicksPerSecond + ttl
       /\ (lookup(sandboxes, last.id) /\ sandboxes[last.id].ContainerID = last.cid)
             => last.createdAt = RFC3339(sandboxes[last.id].CreatedAt)

(***************************************************************************)
(* Server.ServeHTTP: body read, parse, dispatch, limits of sandbox.v1.exec *)
(***************************************************************************)
DefaultTimeoutMS == 5000
DefaultStdoutBytes == 2^20
DefaultStderrBytes == 2^20
MaxTimeoutMS == 120000
MaxOutputBytesCap == 10 * 2^20

\* the methods the README and the SDK name
SixMethods ==
  {"sandbox.v1.create", "sandbox.v1.exec", "sandbox.v1.writeFile",
   "sandbox.v1.readFile", "sandbox.v1.listDir", "sandbox.v1.delete"}

Methods == SixMethods \cup {"sandbox.v1.stat", ""}

TimeoutInputs == {-1, 0, 1, DefaultTimeoutMS, MaxTimeoutMS, MaxTimeoutMS + 1}

ByteInputs == {-1, 0, 1, DefaultStdoutBytes, MaxOutputBytesCap, MaxOutputBytesCap + 1}

\* RPCRequest with its params decoded: arg is the required string of the method
\* (template or id), cmd the length of ExecParams.Cmd
PlainRequests ==
  [jsonrpc : {"2.0", "1.0"}, method : Methods \ {"sandbox.v1.exec"}, arg : {"", "x"},
   cmd : {0}, timeout_ms : {0}, max_stdout_bytes : {0}, max_stderr_bytes : {0}]

ExecRequests ==
  [jsonrpc : {"2.0"}, method : {"sandbox.v1.exec"}, arg : {"", "x"},
   cmd : {0, 1}, timeout_ms : TimeoutInputs, max_stdout_bytes : ByteInputs,
   max_stderr_bytes : ByteInputs]

\* a request body: the JSON document, white space after it, other bytes after that
Bodies == [docLen : 1..MaxDoc, pad : 0..MaxPad, tail : {0, 1}]

BodyLen(b) == b.docLen + b.pad + b.tail

Min(a, b) == IF a < b THEN a ELSE b

\* io.ReadAll(io.LimitReader(r.Body, n)): the first n bytes, no error past them
LimitReader(b, n) ==
  LET d == Min(b.docLen, n)
      w == Min(b.pad, n - d)
  IN [doc |-> d, whole |-> d = b.docLen, pad |-> w, tail |-> Min(b.tail, n - d - w)]

\* json.Unmarshal(body, &req): a whole document, nothing but white space after it
UnmarshalOK(r) == r.whole /\ r.tail = 0

InitRPC ==
  /\ RegInit /\ LWIdle /\ ExIdle /\ TermIdle /\ LockIdle /\ FileIdle /\ OthersIdle
  /\ \E b \in Bodies, d \in PlainRequests \cup ExecRequests :
       rpc = [pc |-> "recv", body |-> b, doc |-> d,
              read |-> [doc |-> 0, whole |-> FALSE, pad |-> 0, tail |-> 0],
              timeoutMS |-> 0, maxOut |-> 0, maxErr |-> 0,
              invoked |-> "none", reply |-> NoReply]

ReadBody ==
  /\ rpc.pc = "recv"
  /\ \/ rpc' = [rpc EXCEPT !.pc = "parse", !.read = LimitReader(rpc.body, BodyCap)]
     \/ rpc' = [rpc EXCEPT !.pc = "replied", !.reply = InvalidParams]
  /\ UNCHANGED <<regVars, lwVars, exVars, termVars, lockVars, fileVars, copyVars, listVars, ttlVars>>

ParseRequest ==
  /\ rpc.pc = "parse"
  /\ rpc' = IF ~UnmarshalOK(rpc.read) \/ rpc.doc.jsonrpc # "2.0" \/ rpc.doc.method = ""
            THEN [rpc EXCEPT !.pc = "replied", !.reply = InvalidParams]
            ELSE [rpc EXCEPT !.pc = "dispatch"]
  /\ UNCHANGED <<regVars, lwVars, exVars, termVars, lockVars, fileVars, copyVars, listVars, ttlVars>>

\* switch req.Method
Dispatch(method) ==
  CASE method = "sandbox.v1.create" -> "Create"
    [] method = "sandbox.v1.exec"   -> "Exec"
    [] method = "sandbox.v1.delete" -> "Delete"
    [] OTHER                        -> "none"

\* &RPCError{Code: -32601, Message: "method not found"}
MethodNotFound == [kind |-> "error", code |-> -32601, type |-> "", retryable |-> FALSE,
                   details |-> ""]

Clamp_NoCeiling(v, def, max) == IF v <= 0 THEN def ELSE v

\* if v <= 0 { v = def }; if v > max { v = max }
Clamp(v, def, max) ==
  LET d == IF v <= 0 THEN def ELSE v
  IN IF d > max THEN max ELSE d

DispatchRPC ==
  /\ rpc.pc = "dispatch"
  /\ LET h == Dispatch(rpc.doc.method)
         d == rpc.doc
     IN rpc' =
          CASE h = "none" -> [rpc EXCEPT !.pc = "replied", !.reply = MethodNotFound]
            [] h = "Exec" ->
                 IF d.arg = "" \/ d.cmd = 0
                 THEN [rpc EXCEPT !.pc = "replied", !.reply = InvalidParams]
                 ELSE [rpc EXCEPT !.pc = "call", !.invoked = h,
                         !.timeoutMS = Clamp(d.timeout_ms, DefaultTimeoutMS, MaxTimeoutMS),
                         !.maxOut = Clamp(d.max_stdout_bytes, DefaultStdoutBytes, MaxOutputBytesCap),
                         !.maxErr = Clamp(d.max_stderr_bytes, DefaultStderrBytes, MaxOutputBytesCap)]
            [] OTHER ->
                 IF d.arg = ""
                 THEN [rpc EXCEPT !.pc = "replied", !.reply = InvalidParams]
                 ELSE [rpc EXCEPT !.pc = "call", !.invoked = h]
  /\ UNCHANGED <<regVars, lwVars, exVars, termVars, lockVars, fileVars, copyVars, listVars, ttlVars>>

\* the provider operation returns and the response is written
ProviderReturns ==
  /\ rpc.pc = "call"
  /\ \E res \in {"ok", "failed"}, cause \in {"runtime", "DeadlineExceeded"} :
       rpc' = [rpc EXCEPT !.pc = "replied",
                 !.reply = CASE rpc.invoked = "Create" -> CreateResponse(res)
                             [] rpc.invoked = "Delete" -> DeleteResponse(res)
                             [] OTHER -> ExecResponse(IF res = "ok" THEN "nil" ELSE res,
                                                      cause, FALSE)]
  /\ UNCHANGED <<regVars, lwVars, exVars, termVars, lockVars, fileVars, copyVars, listVars, ttlVars>>

NextRPC ==
  \/ ReadBody
  \/ ParseRequest
  \/ DispatchRPC
  \/ ProviderReturns

SpecRPC == InitRPC /\ [][NextRPC]_vars

\* C16: code -32601 answers only a method outside the six documented ones, and a
\* well-formed request for one of the six reaches its provider operation.
C16_SixMethodsDispatched ==
  rpc.pc = "replied" =>
     /\ rpc.reply.code = -32601 => rpc.doc.method \notin SixMethods
     /\ rpc.invoked # "none" => rpc.doc.method \in SixMethods

\* C17: the timeout and the output caps handed to Exec are the default when the
\* parameter is not positive, the ceiling when it is above the ceiling, the
\* parameter otherwise, and so lie in 1..120000 and 1..10 MiB.
C17_ExecLimitsClamped ==
  rpc.invoked = "Exec" =>
     LET Eff(v, def, max) == IF v <= 0 THEN def ELSE IF v > max THEN max ELSE v IN
       /\ rpc.timeoutMS = Eff(rpc.doc.timeout_ms, 5000, 120000)
       /\ rpc.maxOut = Eff(rpc.doc.max_stdout_bytes, 1048576, 10485760)
       /\ rpc.maxErr = Eff(rpc.doc.max_stderr_bytes, 1048576, 10485760)
       /\ rpc.timeoutMS >= 1 /\ rpc.timeoutMS <= 120000
       /\ rpc.maxOut >= 1 /\ rpc.maxOut <= 10485760
       /\ rpc.maxErr >= 1 /\ rpc.maxErr <= 10485760

\* a timeout above the ceiling and an absent stdout cap reach Exec clamped
C17_Witness ==
  /\ rpc.invoked = "Exec"
  /\ rpc.doc.timeout_ms > 120000 /\ rpc.timeoutMS = 120000
  /\ rpc.doc.max_stdout_bytes <= 0 /\ rpc.maxOut = 1048576
  /\ rpc.doc.max_stderr_bytes > 10485760 /\ rpc.maxErr = 10485760

\* C19: a request whose body is longer than the cap invokes no provider operation
\* and is answered with INVALID_PARAMS.
C19_LongBodyRejected ==
  BodyLen(rpc.body) > BodyCap =>
     /\ rpc.invoked = "none"
     /\ rpc.pc = "replied" => rpc.reply.type = "INVALID_PARAMS"

\* the reaper goroutine runs for the life of the process: its ticker keeps firing
\* and every step of cleanupExpired returns (each removal has its own 10 s context)
ReaperFairness == WF_vars(GcTick) /\ WF_vars(GcDelete) /\ WF_vars(GcRemove)

SpecReaper == Spec /\ ReaperFairness

\* C20: a sandbox whose expires_at has passed is eventually out of the registry,
\* whatever the runtime answers to the removal of its container.
C20_ExpiredEventuallyReaped ==
  \A id \in Ids :
     (lookup(sandboxes, id) /\ now > sandboxes[id].ExpiresAt) ~> ~lookup(sandboxes, id)

\* the reaper has taken an expired record out of the registry and a lookup of its
\* id answers not found while the container still runs
C20_Witness ==
  /\ gc.pc = "remove" /\ gc.now > 0
  /\ ~lookup(sandboxes, gc.id)
  /\ containers[gc.cid].state = "running"
  /\ last.op = "lookup" /\ last.id = gc.id /\ last.result = "not_found"

\* C21: the snapshot a reaper pass takes at instant now holds exactly the ids whose
\* expires_at is at or before now.
C21_SnapshotAtOrBeforeNow ==
  [][GcTick => gc'.toDelete = {id \in DOMAIN sandboxes : sandboxes[id].ExpiresAt <= now}]_vars

(***************************************************************************)
(* TerminalHandler.ServeHTTP: the WebSocket terminal bridge                *)
(***************************************************************************)
\* the empty string as a sandbox id
EmptyID == 0

\* r.URL.Path after the prefix /terminal/, cut at its slashes
TermPaths == UNION {[1..n -> {EmptyID} \cup Ids] : n \in 0..MaxSegs}

\* strings.Split(path, "/")[0]
SandboxID(path) == IF path = << >> THEN EmptyID ELSE path[1]

InitTerm ==
  /\ sandboxes = (1 :> Sandbox(1, 1, "python", 0, 1))
  /\ containers = (1 :> [state |-> "running", started |-> TRUE, name |-> 1,
                         config |-> ContainerConfig(templates["python"])])
  /\ images = {templates["python"]}
  /\ now = 0
  /\ req = [p \in Procs |-> IdleReq]
  /\ last = [NoReturn EXCEPT !.op = "create", !.id = 1, !.cid = 1, !.result = "ok",
                             !.rt = TRUE, !.reply = rpcResult, !.ttlms = 1]
  /\ gc = GcWait
  /\ issued = <<1>>
  /\ removeCalls = (1 :> 0)
  /\ unregistered = {}
  /\ LWIdle /\ ExIdle /\ RpcIdle /\ LockIdle /\ FileIdle /\ OthersIdle
  /\ \E path \in TermPaths :
       term = [pc |-> "path", path |-> path, id |-> EmptyID, cid |-> NoCID,
               http |-> 0, lookups |-> 0, upgraded |-> FALSE, execs |-> 0,
               conn |-> "none", resp |-> "none", failed |-> "none", diag |-> 0,
               down |-> "none", up |-> "none", done |-> "none", doneCloses |-> 0,
               client |-> "open", shell |-> "none", pending |-> 0, produced |-> 0,
               inbox |-> 0, sent |-> 0]

\* http.Error(w, ..., status); return
TermRefuse(t, status) == [t EXCEPT !.pc = "returned", !.http = status]

TermParse ==
  /\ term.pc = "path"
  /\ LET id == SandboxID(term.path) IN
       term' = IF id = EmptyID
               THEN TermRefuse([term EXCEPT !.id = id], 400)
               ELSE [term EXCEPT !.pc = "lookup", !.id = id]
  /\ UNCHANGED <<regVars, lwVars, exVars, rpcVars, lockVars, fileVars, copyVars, listVars, ttlVars>>

AfterLookup_Upgrade(t, found, cid) == [t EXCEPT !.pc = "upgrade", !.cid = cid]

\* containerID, err := h.P.GetContainerID(sandboxID); if err != nil { 404; return }
AfterLookup(t, found, cid) ==
  IF found THEN [t EXCEPT !.pc = "upgrade", !.cid = cid]
  ELSE TermRefuse(t, 404)

TermLookup ==
  /\ term.pc = "lookup"
  /\ LET found == lookup(sandboxes, term.id)
         t == [term EXCEPT !.lookups = @ + 1]
     IN term' = AfterLookup(t, found, IF found THEN sandboxes[term.id].ContainerID ELSE NoCID)
  /\ UNCHANGED <<regVars, lwVars, exVars, rpcVars, lockVars, fileVars, copyVars, listVars, ttlVars>>

\* upgrader.Upgrade(w, r, nil); defer conn.Close()
TermUpgrade ==
  /\ term.pc = "upgrade"
  /\ \/ term' = [term EXCEPT !.pc = "create", !.upgraded = TRUE, !.conn = "open"]
     \/ term' = TermRefuse(term, 400)
  /\ UNCHANGED <<regVars, lwVars, exVars, rpcVars, lockVars, fileVars, copyVars, listVars, ttlVars>>

SetupFail_Leak(t, step) ==
  [t EXCEPT !.pc = "returned", !.failed = step, !.diag = @ + 1, !.conn = "closed"]

\* conn.WriteMessage(websocket.TextMessage, "Error: ..."); return, running the
\* deferred conn.Close() and, once registered, resp.Close()
SetupFail(t, step) ==
  [t EXCEPT !.pc = "returned", !.failed = step, !.diag = @ + 1, !.conn = "closed",
            !.resp = IF @ = "open" THEN "closed" ELSE @]

TermExecCreate ==
  /\ term.pc = "create"
  /\ \/ /\ containers[term.cid].state = "running"
        /\ term' = [term EXCEPT !.pc = "attach", !.execs = @ + 1]
     \/ term' = SetupFail(term, "create")
  /\ UNCHANGED <<regVars, lwVars, exVars, rpcVars, lockVars, fileVars, copyVars, listVars, ttlVars>>

\* cli.ContainerExecAttach(...); defer resp.Close()
TermExecAttach ==
  /\ term.pc = "attach"
  /\ \/ /\ containers[term.cid].state = "running"
        /\ term' = [term EXCEPT !.pc = "start", !.resp = "open"]
     \/ term' = SetupFail(term, "attach")
  /\ UNCHANGED <<regVars, lwVars, exVars, rpcVars, lockVars, fileVars, copyVars, listVars, ttlVars>>

\* cli.ContainerExecStart(...); done := make(chan struct{}); the two go statements
TermExecStart ==
  /\ term.pc = "start"
  /\ \/ /\ containers[term.cid].state = "running"
        /\ term' = [term EXCEPT !.pc = "wait", !.shell = "running", !.done = "open",
                                !.down = "reading", !.up = "reading"]
     \/ term' = SetupFail(term, "start")
  /\ UNCHANGED <<regVars, lwVars, exVars, rpcVars, lockVars, fileVars, copyVars, listVars, ttlVars>>

\* the attach stream is at its end: the shell exited, the container was removed,
\* or the handler closed the stream
AttachOver(t) ==
  t.shell = "exited" \/ containers[t.cid].state = "removed" \/ t.resp = "closed"

DownEnd_NoSignal(t) == [t EXCEPT !.down = "ended"]

\* return from the downstream goroutine: defer close(done)
DownEnd(t) == [t EXCEPT !.down = "ended", !.done = "closed", !.doneCloses = @ + 1]

\* n, err := resp.Reader.Read(buf): a chunk, or an error once the stream is over
DownRead ==
  /\ term.down = "reading"
  /\ \/ term.pending > 0 /\ term' = [term EXCEPT !.pending = @ - 1, !.down = "writing"]
     \/ term.pending = 0 /\ AttachOver(term) /\ term' = DownEnd(term)
  /\ UNCHANGED <<regVars, lwVars, exVars, rpcVars, lockVars, fileVars, copyVars, listVars, ttlVars>>

\* conn.WriteMessage(websocket.BinaryMessage, buf[:n])
DownWrite ==
  /\ term.down = "writing"
  /\ \/ term.conn = "open" /\ term' = [term EXCEPT !.down = "reading"]
     \/ (term.conn = "closed" \/ term.client = "closed") /\ term' = DownEnd(term)
  /\ UNCHANGED <<regVars, lwVars, exVars, rpcVars, lockVars, fileVars, copyVars, listVars, ttlVars>>

\* _, message, err := conn.ReadMessage(): a message, or an error once the client
\* is gone or the handler closed the connection; the goroutine returns on error
UpRead ==
  /\ term.up = "reading"
  /\ \/ term.inbox > 0 /\ term.conn = "open"
        /\ term' = [term EXCEPT !.inbox = @ - 1, !.up = "writing"]
     \/ /\ term.conn = "closed" \/ (term.client = "closed" /\ term.inbox = 0)
        /\ term' = [term EXCEPT !.up = "ended"]
  /\ UNCHANGED <<regVars, lwVars, exVars, rpcVars, lockVars, fileVars, copyVars, listVars, ttlVars>>

\* resp.Conn.Write(message)
UpWrite ==
  /\ term.up = "writing"
  /\ \/ ~AttachOver(term) /\ term' = [term EXCEPT !.up = "reading"]
     \/ AttachOver(term) /\ term' = [term EXCEPT !.up = "ended"]
  /\ UNCHANGED <<regVars, lwVars, exVars, rpcVars, lockVars, fileVars, copyVars, listVars, ttlVars>>

\* <-done; return, running the deferred resp.Close() and conn.Close()
TermWait ==
  /\ term.pc = "wait"
  /\ term.done = "closed"
  /\ term' = [term EXCEPT !.pc = "returned", !.resp = "closed", !.conn = "closed"]
  /\ UNCHANGED <<regVars, lwVars, exVars, rpcVars, lockVars, fileVars, copyVars, listVars, ttlVars>>

\* the shell prints
ShellWrites ==
  /\ term.shell = "running" /\ containers[term.cid].state = "running"
  /\ term.produced < MaxChunks
  /\ term' = [term EXCEPT !.pending = @ + 1, !.produced = @ + 1]
  /\ UNCHANGED <<regVars, lwVars, exVars, rpcVars, lockVars, fileVars, copyVars, listVars, ttlVars>>

\* the shell exits
ShellExits ==
  /\ term.shell = "running"
  /\ term' = [term EXCEPT !.shell = "exited"]
  /\ UNCHANGED <<regVars, lwVars, exVars, rpcVars, lockVars, fileVars, copyVars, listVars, ttlVars>>

\* the client types
ClientSends ==
  /\ term.upgraded /\ term.client = "open" /\ term.conn = "open"
  /\ term.sent < MaxMsgs
  /\ term' = [term EXCEPT !.inbox = @ + 1, !.sent = @ + 1]
  /\ UNCHANGED <<regVars, lwVars, exVars, rpcVars, lockVars, fileVars, copyVars, listVars, ttlVars>>

\* the client closes or loses its connection
ClientCloses ==
  /\ term.upgraded /\ term.client = "open"
  /\ term' = [term EXCEPT !.client = "closed"]
  /\ UNCHANGED <<regVars, lwVars, exVars, rpcVars, lockVars, fileVars, copyVars, listVars, ttlVars>>

NextTerm ==
  \/ TermParse
  \/ TermLookup
  \/ TermUpgrade
  \/ TermExecCreate
  \/ TermExecAttach
  \/ TermExecStart
  \/ DownRead
  \/ DownWrite
  \/ UpRead
  \/ UpWrite
  \/ TermWait
  \/ ShellWrites
  \/ ShellExits
  \/ ClientSends
  \/ ClientCloses
  \/ \E id \in Ids : DeleteBegin(1, id)
  \/ DeleteRemove(1)

SpecTerm == InitTerm /\ [][NextTerm]_vars

\* the handler and its two goroutines run when they can; what the shell, the
\* client and other requests do is left to the environment
TermFairness ==
  /\ WF_vars(TermParse) /\ WF_vars(TermLookup) /\ WF_vars(TermUpgrade)
  /\ WF_vars(TermExecCreate) /\ WF_vars(TermExecAttach) /\ WF_vars(TermExecStart)
  /\ WF_vars(DownRead) /\ WF_vars(DownWrite) /\ WF_vars(UpRead) /\ WF_vars(UpWrite)
  /\ WF_vars(TermWait)

SpecTermFair == SpecTerm /\ TermFairness

\* C22: once the upstream loop of a running bridge has ended, the handler
\* eventually returns with the attach stream closed.
C22_UpstreamEndTearsDown ==
  (term.pc = "wait" /\ term.up = "ended")
     ~> (term.pc = "returned" /\ term.resp = "closed")

\* C23: a request with an empty or unknown sandbox id is refused with an HTTP error,
\* not upgraded and creates no exec; an upgraded connection has made exactly one
\* registry lookup, and no connection ever makes more than one.
C23_RefusedBeforeUpgrade ==
  /\ (term.pc \notin {"off", "path"} /\ term.id = EmptyID)
        => (term.pc = "returned" /\ term.http = 400 /\ term.lookups = 0)
  /\ (term.pc \notin {"off", "path", "lookup"} /\ term.cid = NoCID)
        => /\ term.pc = "returned" /\ term.http \in {400, 404}
           /\ ~term.upgraded /\ term.conn = "none" /\ term.execs = 0
  /\ (term.pc # "off" /\ term.upgraded) => term.lookups = 1
  /\ term.pc # "off" => term.lookups <= 1

\* an unknown id was refused with 404 after its one lookup
C23_Witness ==
  /\ term.pc = "returned" /\ term.http = 404 /\ term.lookups = 1
  /\ term.id # EmptyID /\ ~term.upgraded /\ term.execs = 0

\* C24: a setup failure after the upgrade leaves one diagnostic frame written,
\* no copy loop started, the client connection closed and the attach stream
\* closed if it had been opened.
C24_SetupFailureOneFrame ==
  (term.pc = "returned" /\ term.failed # "none")
     => /\ term.diag = 1
        /\ term.down = "none" /\ term.up = "none"
        /\ term.conn = "closed"
        /\ term.resp = (IF term.failed = "start" THEN "closed" ELSE "none")

\* exec start failed with the attach stream open
C24_Witness ==
  /\ term.pc = "returned" /\ term.failed = "start"
  /\ term.diag = 1 /\ term.resp = "closed" /\ term.conn = "closed"

\* C30: once the attach stream of a running bridge is over, the handler eventually
\* returns with the client connection and the attach stream closed; the done
\* signal is closed at most once, and exactly once when the handler returns from
\* the bridge.
C30_StreamEndTearsDown ==
  /\ [](term.pc # "off" => term.doneCloses <= 1)
  /\ []((term.pc = "returned" /\ term.down # "none") => term.doneCloses = 1)
  /\ (term.pc = "wait" /\ (term.shell = "exited" \/ containers[term.cid].state = "removed"))
        ~> (term.pc = "returned" /\ term.conn = "closed" /\ term.resp = "closed")

\* the container was removed under a running session and the handler returned
C30_Witness ==
  /\ term.pc = "returned" /\ term.down = "ended" /\ term.doneCloses = 1
  /\ term.shell = "running" /\ containers[term.cid].state = "removed"
  /\ term.conn = "closed" /\ term.resp = "closed"

\* C29: in a reaper pass every Delete, failed or not, is followed by the next id
\* of the snapshot, each found id gets a fresh context, and the pass hands over
\* to the next tick only when the snapshot is used up.
C29_PassSurvivesFailures ==
  [][/\ GcDelete =>
          \E id \in gc.toDelete :
             LET rest == gc.toDelete \ {id} IN
               \/ /\ lookup(sandboxes, id)
                  /\ gc'.pc = "remove" /\ gc'.id = id /\ gc'.toDelete = rest
                  /\ gc'.ctxErr = "nil"
               \/ /\ ~lookup(sandboxes, id)
                  /\ IF rest = {} THEN gc'.pc = "wait"
                     ELSE gc'.pc = "loop" /\ gc'.toDelete = rest
     /\ GcRemove =>
          IF gc.toDelete = {} THEN gc'.pc = "wait"
          ELSE gc'.pc = "loop" /\ gc'.toDelete = gc.toDelete]_vars

\* a Delete of the pass has failed and the next id of the snapshot is under removal
C29_Witness ==
  /\ gc.pc = "remove" /\ gc.failed /\ gc.ctxErr = "nil"
  /\ gc.id \notin DOMAIN sandboxes

\* C28: an Exec that has looked up its record, and whose record a concurrent Delete
\* has taken out of the registry since, returns.
C28_ExecAfterDeleteReturns ==
  (ex.pc \in {"create", "attach", "read", "check", "inspect"} /\ ex.id \notin DOMAIN sandboxes)
     ~> (ex.pc \in {"done", "replied"})

(***************************************************************************)
(* p.mu: the methods of DockerProvider as flows of lock operations, map    *)
(* accesses and runtime calls, run by concurrent goroutines                *)
(***************************************************************************)
\* the goroutine of gcLoop, beside the request handlers Procs
Reaper == 0

LockProcs == Procs \cup {Reaper}

\* one statement of a method and the statements that follow it when it succeeds
\* (a found record, a nil error) and when it does not; 0 is the return
Node(step, ok, fail) == [step |-> step, ok |-> ok, fail |-> fail]

CreateFlow ==
  << Node("ImageInspect", 3, 2),
     Node("ImagePull", 3, 0),
     Node("ContainerCreate", 4, 0),
     Node("ContainerStart", 6, 5),
     Node("ContainerRemove", 0, 0),
     Node("Lock", 7, 7),
     Node("mapInsert", 8, 8),
     Node("Unlock", 0, 0) >>

\* Exec, WriteFile and ReadFile
ExecFlow ==
  << Node("RLock", 2, 2),
     Node("mapRead", 3, 4),
     Node("RUnlock", 5, 5),
     Node("RUnlock", 0, 0),
     Node("ExecCreate", 6, 0),
     Node("ExecAttach", 7, 0),
     Node("StreamRead", 8, 8),
     Node("ExecInspect", 0, 0) >>

ListDirFlow ==
  << Node("RLock", 2, 2),
     Node("mapRead", 3, 4),
     Node("RUnlock", 5, 5),
     Node("RUnlock", 0, 0),
     Node("ExecCreate", 6, 0),
     Node("ExecAttach", 7, 0),
     Node("StreamRead", 0, 0) >>

GetContainerIDFlow ==
  << Node("RLock", 2, 2),
     Node("mapRead", 3, 3),
     Node("RUnlock", 0, 0) >>

DeleteFlow ==
  << Node("Lock", 2, 2),
     Node("mapRead", 3, 5),
     Node("mapDelete", 4, 4),
     Node("Unlock", 6, 6),
     Node("Unlock", 0, 0),
     Node("ContainerRemove", 0, 0) >>

\* the snapshot of cleanupExpired; the Delete calls that follow run DeleteFlow
cleanupExpiredFlow ==
  << Node("RLock", 2, 2),
     Node("mapRead", 3, 3),
     Node("RUnlock", 0, 0) >>

LockedMethods == {"Create", "Exec", "WriteFile", "ReadFile", "ListDir", "GetContainerID", "Delete"}

Flow(op) ==
  CASE op = "Create" -> CreateFlow
    [] op \in {"Exec", "WriteFile", "ReadFile"} -> ExecFlow
    [] op = "ListDir" -> ListDirFlow
    [] op = "GetContainerID" -> GetContainerIDFlow
    [] op = "Delete" -> DeleteFlow
    [] op = "cleanupExpired" -> cleanupExpiredFlow

RuntimeCalls == {"ImageInspect", "ImagePull", "ContainerCreate", "ContainerStart",
                 "ContainerRemove", "ExecCreate", "ExecAttach", "ExecInspect"}

IdleProc == [op |-> "idle", at |-> 0, todo |-> 0]

\* the statement goroutine p executes next, "none" between two calls
StepOf(p) == IF lk.proc[p].at = 0 THEN "none" ELSE Flow(lk.proc[p].op)[lk.proc[p].at].step

InitLock ==
  /\ RegInit /\ LWIdle /\ ExIdle /\ RpcIdle /\ TermIdle /\ FileIdle /\ OthersIdle
  /\ lk = [w |-> {}, r |-> {}, proc |-> [p \in LockProcs |-> IdleProc]]

\* sync.RWMutex: Lock waits for the writer and the readers to be gone, RLock for
\* the writer
CanStep(mu, p, step) ==
  CASE step = "Lock" -> mu.w = {} /\ mu.r = {}
    [] step = "RLock" -> mu.w = {}
    [] OTHER -> TRUE

LockOp_NoUnlock(mu, p, step) ==
  CASE step = "Lock" -> [mu EXCEPT !.w = {p}]
    [] step = "RLock" -> [mu EXCEPT !.r = @ \cup {p}]
    [] step = "RUnlock" -> [mu EXCEPT !.r = @ \ {p}]
    [] OTHER -> mu

\* what a statement does to p.mu
LockOp(mu, p, step) ==
  CASE step = "Lock" -> [mu EXCEPT !.w = {p}]
    [] step = "Unlock" -> [mu EXCEPT !.w = {}]
    [] step = "RLock" -> [mu EXCEPT !.r = @ \cup {p}]
    [] step = "RUnlock" -> [mu EXCEPT !.r = @ \ {p}]
    [] OTHER -> mu

\* where goroutine p is after a statement: at the next one, or back from the
\* method; the reaper goes on to the Delete of the next snapshotted id
After(p, rec, next) ==
  IF next # 0 THEN [rec EXCEPT !.at = next]
  ELSE IF p = Reaper /\ rec.todo > 0
       THEN [op |-> "Delete", at |-> 1, todo |-> rec.todo - 1]
       ELSE IdleProc

\* a request handler enters a method of the provider
Call(p, op) ==
  /\ lk.proc[p].at = 0
  /\ lk' = [lk EXCEPT !.proc[p] = [op |-> op, at |-> 1, todo |-> 0]]
  /\ UNCHANGED <<regVars, lwVars, exVars, rpcVars, termVars, fileVars, copyVars, listVars, ttlVars>>

\* the ticker of gcLoop fires
ReaperTick ==
  /\ lk.proc[Reaper].at = 0
  /\ lk' = [lk EXCEPT !.proc[Reaper] = [op |-> "cleanupExpired", at |-> 1, todo |-> 0]]
  /\ UNCHANGED <<regVars, lwVars, exVars, rpcVars, termVars, fileVars, copyVars, listVars, ttlVars>>

\* goroutine p executes its next statement; the range over the map in
\* cleanupExpired leaves any number of ids to delete
MethodStep(p) ==
  LET rec == lk.proc[p]
      n == Flow(rec.op)[rec.at]
      todos == IF rec.op = "cleanupExpired" /\ n.step = "mapRead" THEN 0..NumIds ELSE {rec.todo}
  IN /\ rec.at # 0
     /\ CanStep(lk, p, n.step)
     /\ \E next \in {n.ok, n.fail}, k \in todos :
          lk' = [LockOp(lk, p, n.step) EXCEPT !.proc[p] = After(p, [rec EXCEPT !.todo = k], next)]
     /\ UNCHANGED <<regVars, lwVars, exVars, rpcVars, termVars, fileVars, copyVars, listVars, ttlVars>>

NextLock ==
  \/ \E p \in Procs, op \in LockedMethods : Call(p, op)
  \/ ReaperTick
  \/ \E p \in LockProcs : MethodStep(p)

SpecLock == InitLock /\ [][NextLock]_vars

\* C27: a goroutine about to make a runtime call or read a stream holds no lock, one
\* about to read the map holds the read or the write lock, one about to insert into
\* or delete from the map holds the write lock, the write lock excludes every other
\* holder, and cleanupExpired holds the read lock alone, from its RLock to the
\* RUnlock that ends the snapshot.
C27_LockDiscipline ==
  /\ \A p \in LockProcs :
       /\ StepOf(p) \in RuntimeCalls \cup {"StreamRead", "none"} => p \notin lk.w \cup lk.r
       /\ StepOf(p) = "mapRead" => p \in lk.w \cup lk.r
       /\ StepOf(p) \in {"mapInsert", "mapDelete"} => p \in lk.w
  /\ lk.w # {} => (lk.r = {} /\ Cardinality(lk.w) = 1)
  /\ lk.proc[Reaper].op = "cleanupExpired" => Reaper \notin lk.w
  /\ Reaper \in lk.r =>
       (lk.proc[Reaper].op = "cleanupExpired" /\ StepOf(Reaper) \in {"mapRead", "RUnlock"})

\* the reaper is in the ContainerRemove of a Delete with one more id to go, a Create
\* holds the write lock for its insert and an Exec waits in RLock
C27_Witness ==
  /\ lk.proc[Reaper].op = "Delete" /\ StepOf(Reaper) = "ContainerRemove"
  /\ lk.proc[Reaper].todo = 1
  /\ lk.proc[1].op = "Create" /\ StepOf(1) = "mapInsert" /\ lk.w = {1}
  /\ lk.proc[2].op = "Exec" /\ StepOf(2) = "RLock"

(***************************************************************************)
(* DockerProvider.WriteFile followed by DockerProvider.ReadFile of the     *)
(* same path of one sandbox                                                *)
(***************************************************************************)
\* the byte values contents are made of
FileBytes == {0, 10, 255}

Contents == UNION {[1..n -> FileBytes] : n \in 0..MaxFileLen}

\* the padding character '=' and the newline of echo, beside the digits 0..63
Pad == 64

NL == 65

RECURSIVE EncodeToString(_)
\* base64.StdEncoding.EncodeToString: three bytes to four digits, padded
EncodeToString(b) ==
  IF Len(b) = 0 THEN << >>
  ELSE IF Len(b) = 1 THEN << b[1] \div 4, (b[1] % 4) * 16, Pad, Pad >>
  ELSE IF Len(b) = 2
       THEN << b[1] \div 4, (b[1] % 4) * 16 + b[2] \div 16, (b[2] % 16) * 4, Pad >>
       ELSE << b[1] \div 4, (b[1] % 4) * 16 + b[2] \div 16,
               (b[2] % 16) * 4 + b[3] \div 64, b[3] % 64 >>
            \o EncodeToString(SubSeq(b, 4, Len(b)))

\* echo %s: the argument and a newline
Echo(text) == Append(text, NL)

RECURSIVE DecodeDigits(_)
DecodeDigits(d) ==
  IF Len(d) < 4 THEN << >>
  ELSE << d[1] * 4 + d[2] \div 16 >>
       \o (IF d[3] = Pad THEN << >> ELSE << (d[2] % 16) * 16 + d[3] \div 4 >>)
       \o (IF d[3] = Pad \/ d[4] = Pad THEN << >> ELSE << (d[3] % 4) * 64 + d[4] >>)
       \o DecodeDigits(SubSeq(d, 5, Len(d)))

\* base64 -d: newlines are skipped, four digits give up to three bytes
Base64Decode(text) == DecodeDigits(SelectSeq(text, LAMBDA c : c # NL))

NoFile == [exists |-> FALSE, data |-> << >>]

\* the value of an error: its message, the exit code and the stderr text formatted
\* into it
FileErr(msg, code, stderr) == [msg |-> msg, code |-> code, stderr |-> stderr]

NoErr == FileErr("nil", 0, << >>)

\* the frames cat sends for a file, byte by byte
RECURSIVE StdoutFrames(_)
StdoutFrames(data) ==
  IF data = << >> THEN << >>
  ELSE << [fd |-> "stdout", data |-> Head(data)] >> \o StdoutFrames(Tail(data))

\* ContainerExecInspect on an exec: ExitCode is 0 as long as the command runs
InspectExitCode(run, exit) == IF run = "exited" THEN exit ELSE 0

InitFile ==
  /\ sandboxes = (1 :> Sandbox(1, 1, "python", 0, 1))
  /\ containers = (1 :> [state |-> "running", started |-> TRUE, name |-> 1,
                         config |-> ContainerConfig(templates["python"])])
  /\ images = {templates["python"]}
  /\ now = 0
  /\ req = [p \in Procs |-> IdleReq]
  /\ last = [NoReturn EXCEPT !.op = "create", !.id = 1, !.cid = 1, !.result = "ok",
                             !.rt = TRUE, !.reply = rpcResult, !.ttlms = 1]
  /\ gc = GcWait
  /\ issued = <<1>>
  /\ removeCalls = (1 :> 0)
  /\ unregistered = {}
  /\ LWIdle /\ ExIdle /\ RpcIdle /\ TermIdle /\ LockIdle /\ OthersIdle
  /\ \E id \in Ids, b \in Contents :
       fio = [pc |-> "w_lookup", id |-> id, b |-> b, cmd |-> << >>, file |-> NoFile,
              wrun |-> "none", wexit |-> 0, wstderr |-> << >>, wEnd |-> "none",
              werr |-> NoErr,
              rrun |-> "none", rexit |-> 0, stream |-> << >>, emitted |-> << >>,
              stdoutBuf |-> << >>, stderrBuf |-> << >>, rEnd |-> "none",
              rerr |-> NoErr, rout |-> << >>]

\* WriteFile returns; the client goes on to ReadFile
WriteFileReturn(f, err) == [f EXCEPT !.pc = "r_lookup", !.werr = err]

WriteFileLookup ==
  /\ fio.pc = "w_lookup"
  /\ fio' = IF lookup(sandboxes, fio.id)
            THEN [fio EXCEPT !.pc = "w_create", !.cmd = Echo(EncodeToString(fio.b))]
            ELSE WriteFileReturn(fio, FileErr("sandbox not found", 0, << >>))
  /\ UNCHANGED <<regVars, lwVars, exVars, rpcVars, termVars, lockVars, copyVars, listVars, ttlVars>>

WriteFileExecCreate ==
  /\ fio.pc = "w_create"
  /\ \/ fio' = [fio EXCEPT !.pc = "w_attach"]
     \/ fio' = WriteFileReturn(fio, FileErr("exec create failed", 0, << >>))
  /\ UNCHANGED <<regVars, lwVars, exVars, rpcVars, termVars, lockVars, copyVars, listVars, ttlVars>>

\* ContainerExecAttach starts sh -c
WriteFileExecAttach ==
  /\ fio.pc = "w_attach"
  /\ \/ fio' = [fio EXCEPT !.pc = "w_copy", !.wrun = "running"]
     \/ fio' = WriteFileReturn(fio, FileErr("exec attach failed", 0, << >>))
  /\ UNCHANGED <<regVars, lwVars, exVars, rpcVars, termVars, lockVars, copyVars, listVars, ttlVars>>

\* mkdir -p $(dirname PATH) && echo B64 | base64 -d > PATH runs to its end: the file
\* holds the decoded bytes, or a step fails with a message on stderr
ShRuns ==
  /\ fio.wrun = "running"
  /\ \/ fio' = [fio EXCEPT !.wrun = "exited", !.wexit = 0,
                           !.file = [exists |-> TRUE, data |-> Base64Decode(fio.cmd)]]
     \/ fio' = [fio EXCEPT !.wrun = "exited", !.wexit = 1,
                           !.wstderr = << "sh: can't create" >>]
  /\ UNCHANGED <<regVars, lwVars, exVars, rpcVars, termVars, lockVars, copyVars, listVars, ttlVars>>

\* _, _ = io.Copy(io.Discard, resp.Reader) reaches the end of the stream
WriteFileCopy ==
  /\ fio.pc = "w_copy" /\ fio.wrun = "exited"
  /\ fio' = [fio EXCEPT !.pc = "w_inspect", !.wEnd = "eof"]
  /\ UNCHANGED <<regVars, lwVars, exVars, rpcVars, termVars, lockVars, copyVars, listVars, ttlVars>>

\* the attach connection breaks: io.Copy returns an error, which is dropped
WriteFileCopyError ==
  /\ fio.pc = "w_copy"
  /\ fio' = [fio EXCEPT !.pc = "w_inspect", !.wEnd = "error"]
  /\ UNCHANGED <<regVars, lwVars, exVars, rpcVars, termVars, lockVars, copyVars, listVars, ttlVars>>

WriteFileInspect ==
  /\ fio.pc = "w_inspect"
  /\ \/ LET code == InspectExitCode(fio.wrun, fio.wexit)
        IN fio' = WriteFileReturn(fio, IF code # 0
                                       THEN FileErr("write file failed with exit code", code, << >>)
                                       ELSE NoErr)
     \/ fio' = WriteFileReturn(fio, FileErr("exec inspect failed", 0, << >>))
  /\ UNCHANGED <<regVars, lwVars, exVars, rpcVars, termVars, lockVars, copyVars, listVars, ttlVars>>

ReadFileReturn(f, out, err) == [f EXCEPT !.pc = "done", !.rout = out, !.rerr = err]

ReadFileLookup ==
  /\ fio.pc = "r_lookup"
  /\ fio' = IF lookup(sandboxes, fio.id)
            THEN [fio EXCEPT !.pc = "r_create"]
            ELSE ReadFileReturn(fio, << >>, FileErr("sandbox not found", 0, << >>))
  /\ UNCHANGED <<regVars, lwVars, exVars, rpcVars, termVars, lockVars, copyVars, listVars, ttlVars>>

ReadFileExecCreate ==
  /\ fio.pc = "r_create"
  /\ \/ fio' = [fio EXCEPT !.pc = "r_attach"]
     \/ fio' = ReadFileReturn(fio, << >>, FileErr("exec create failed", 0, << >>))
  /\ UNCHANGED <<regVars, lwVars, exVars, rpcVars, termVars, lockVars, copyVars, listVars, ttlVars>>

\* ContainerExecAttach starts cat PATH
ReadFileExecAttach ==
  /\ fio.pc = "r_attach"
  /\ \/ fio' = [fio EXCEPT !.pc = "r_copy", !.rrun = "running"]
     \/ fio' = ReadFileReturn(fio, << >>, FileErr("exec attach failed", 0, << >>))
  /\ UNCHANGED <<regVars, lwVars, exVars, rpcVars, termVars, lockVars, copyVars, listVars, ttlVars>>

\* cat PATH runs to its end: the bytes of the file on stdout, or a message on stderr
CatRuns ==
  /\ fio.rrun = "running"
  /\ fio' = IF fio.file.exists
            THEN [fio EXCEPT !.rrun = "exited", !.rexit = 0,
                             !.stream = StdoutFrames(fio.file.data)]
            ELSE [fio EXCEPT !.rrun = "exited", !.rexit = 1,
                             !.emitted = << "cat: No such file or directory" >>,
                             !.stream = << [fd |-> "stderr",
                                            data |-> "cat: No such file or directory"] >>]
  /\ UNCHANGED <<regVars, lwVars, exVars, rpcVars, termVars, lockVars, copyVars, listVars, ttlVars>>

\* one turn of _, _ = stdcopy.StdCopy(&stdoutBuf, &stderrBuf, resp.Reader)
ReadFileCopy ==
  /\ fio.pc = "r_copy"
  /\ fio.stream # << >> \/ fio.rrun = "exited"
  /\ fio' = IF fio.stream = << >>
            THEN [fio EXCEPT !.pc = "r_inspect", !.rEnd = "eof"]
            ELSE IF Head(fio.stream).fd = "stdout"
                 THEN [fio EXCEPT !.stdoutBuf = Append(@, Head(fio.stream).data),
                                  !.stream = Tail(@)]
                 ELSE [fio EXCEPT !.stderrBuf = Append(@, Head(fio.stream).data),
                                  !.stream = Tail(@)]
  /\ UNCHANGED <<regVars, lwVars, exVars, rpcVars, termVars, lockVars, copyVars, listVars, ttlVars>>

\* the attach connection breaks: StdCopy returns an error, which is dropped
ReadFileCopyError ==
  /\ fio.pc = "r_copy"
  /\ fio' = [fio EXCEPT !.pc = "r_inspect", !.rEnd = "error"]
  /\ UNCHANGED <<regVars, lwVars, exVars, rpcVars, termVars, lockVars, copyVars, listVars, ttlVars>>

ReadFileInspect ==
  /\ fio.pc = "r_inspect"
  /\ \/ LET code == InspectExitCode(fio.rrun, fio.rexit)
        IN fio' = IF code # 0
                  THEN ReadFileReturn(fio, << >>,
                                      FileErr("file not found or read error", 0, fio.stderrBuf))
                  ELSE ReadFileReturn(fio, fio.stdoutBuf, NoErr)
     \/ fio' = ReadFileReturn(fio, << >>, FileErr("exec inspect failed", 0, << >>))
  /\ UNCHANGED <<regVars, lwVars, exVars, rpcVars, termVars, lockVars, copyVars, listVars, ttlVars>>

NextFile ==
  \/ WriteFileLookup
  \/ WriteFileExecCreate
  \/ WriteFileExecAttach
  \/ ShRuns
  \/ WriteFileCopy
  \/ WriteFileCopyError
  \/ WriteFileInspect
  \/ ReadFileLookup
  \/ ReadFileExecCreate
  \/ ReadFileExecAttach
  \/ CatRuns
  \/ ReadFileCopy
  \/ ReadFileCopyError
  \/ ReadFileInspect

SpecFile == InitFile /\ [][NextFile]_vars

\* C25: when WriteFile(id, path, b) and the ReadFile(id, path) that follows it both
\* return without error, ReadFile returns exactly b.
C25_WriteThenReadReturnsContent ==
  (fio.pc = "done" /\ fio.werr = NoErr /\ fio.rerr = NoErr) => fio.rout = fio.b

\* C26: a WriteFile or ReadFile whose command was waited for to the end of its
\* stream returns no error only if the command exited with 0, and the error it
\* returns for a nonzero exit carries the stderr text of the command.
C26_NonzeroExitCarriesStderr ==
  /\ (fio.pc \notin {"w_lookup", "w_create", "w_attach", "w_copy", "w_inspect"}
        /\ fio.wEnd = "eof")
       => /\ fio.werr = NoErr => fio.wexit = 0
          /\ fio.werr.msg = "write file failed with exit code"
               => (fio.wexit # 0 /\ fio.werr.stderr = fio.wstderr)
  /\ (fio.pc = "done" /\ fio.rEnd = "eof")
       => /\ fio.rerr = NoErr => fio.rexit = 0
          /\ fio.rerr.msg = "file not found or read error"
               => (fio.rexit # 0 /\ fio.rerr.stderr = fio.emitted)

(***************************************************************************)
(* The copy loops of TerminalHandler.ServeHTTP with the bytes they carry.  *)
(* A byte is named by its position in the stream it belongs to: the attach *)
(* stream holds 1..cp.out, the client has sent 1..cp.typed.                *)
(***************************************************************************)
\* the n bytes that follow position from
Chunk_Stale(from, n) == [i \in 1..n |-> i]

Chunk(from, n) == [i \in 1..n |-> from + i]

RECURSIVE Concat(_)
Concat(chunks) == IF chunks = << >> THEN << >> ELSE Head(chunks) \o Concat(Tail(chunks))

\* the bridge right after the two go statements
InitCopy ==
  /\ RegInit /\ LWIdle /\ ExIdle /\ RpcIdle /\ TermIdle /\ LockIdle /\ FileIdle
  /\ ld = [pc |-> "off"] /\ dur = [pc |-> "off"]
  /\ cp = [pc |-> "wait", shell |-> "running", client |-> "open",
           out |-> 0, rd |-> 0, buf |-> << >>, frames |-> << >>, down |-> "reading",
           typed |-> 0, sends |-> 0, inbox |-> << >>, msg |-> << >>, stdin |-> << >>, up |-> "reading"]

\* the shell prints n bytes
CopyShellWrites ==
  /\ cp.shell = "running"
  /\ \E n \in 1..(MaxOut - cp.out) : cp' = [cp EXCEPT !.out = @ + n]
  /\ UNCHANGED <<regVars, lwVars, exVars, rpcVars, termVars, lockVars, fileVars, listVars, ttlVars>>

CopyShellExits ==
  /\ cp.shell = "running"
  /\ cp' = [cp EXCEPT !.shell = "exited"]
  /\ UNCHANGED <<regVars, lwVars, exVars, rpcVars, termVars, lockVars, fileVars, listVars, ttlVars>>

\* the client sends a text or binary frame with a payload of n bytes
CopyClientSends ==
  /\ cp.client = "open" /\ cp.pc = "wait" /\ cp.sends < MaxSends
  /\ \E n \in 0..(MaxTyped - cp.typed) :
       cp' = [cp EXCEPT !.inbox = Append(@, Chunk(cp.typed, n)), !.typed = @ + n,
                        !.sends = @ + 1]
  /\ UNCHANGED <<regVars, lwVars, exVars, rpcVars, termVars, lockVars, fileVars, listVars, ttlVars>>

CopyClientCloses ==
  /\ cp.client = "open"
  /\ cp' = [cp EXCEPT !.client = "closed"]
  /\ UNCHANGED <<regVars, lwVars, exVars, rpcVars, termVars, lockVars, fileVars, listVars, ttlVars>>

\* n, err := resp.Reader.Read(buf): up to len(buf) of the bytes not yet read, or an
\* error when the stream is over or closed; the goroutine returns and closes done
CopyDownRead ==
  /\ cp.down = "reading"
  /\ \/ /\ cp.pc = "wait"
        /\ \E n \in 1..Min(BufLen, cp.out - cp.rd) :
             cp' = [cp EXCEPT !.buf = Chunk(cp.rd, n), !.rd = @ + n, !.down = "writing"]
     \/ /\ (cp.rd = cp.out /\ cp.shell = "exited") \/ cp.pc = "returned"
        /\ cp' = [cp EXCEPT !.down = "ended"]
  /\ UNCHANGED <<regVars, lwVars, exVars, rpcVars, termVars, lockVars, fileVars, listVars, ttlVars>>

\* conn.WriteMessage(websocket.BinaryMessage, buf[:n])
CopyDownWrite ==
  /\ cp.down = "writing"
  /\ \/ /\ cp.client = "open" /\ cp.pc = "wait"
        /\ cp' = [cp EXCEPT !.frames = Append(@, cp.buf), !.buf = << >>, !.down = "reading"]
     \/ /\ cp.client = "closed" \/ cp.pc = "returned"
        /\ cp' = [cp EXCEPT !.buf = << >>, !.down = "ended"]
  /\ UNCHANGED <<regVars, lwVars, exVars, rpcVars, termVars, lockVars, fileVars, listVars, ttlVars>>

\* _, message, err := conn.ReadMessage()
CopyUpRead ==
  /\ cp.up = "reading"
  /\ \/ /\ cp.inbox # << >> /\ cp.pc = "wait"
        /\ cp' = [cp EXCEPT !.msg = Head(cp.inbox), !.inbox = Tail(@), !.up = "writing"]
     \/ /\ (cp.inbox = << >> /\ cp.client = "closed") \/ cp.pc = "returned"
        /\ cp' = [cp EXCEPT !.up = "ended"]
  /\ UNCHANGED <<regVars, lwVars, exVars, rpcVars, termVars, lockVars, fileVars, listVars, ttlVars>>

\* _, err = resp.Conn.Write(message): the whole payload, or a part of it and an error
CopyUpWrite ==
  /\ cp.up = "writing"
  /\ \/ /\ cp.shell = "running" /\ cp.pc = "wait"
        /\ cp' = [cp EXCEPT !.stdin = @ \o cp.msg, !.msg = << >>, !.up = "reading"]
     \/ /\ cp.shell = "exited" \/ cp.pc = "returned"
        /\ \E k \in 0..Len(cp.msg) :
             cp' = [cp EXCEPT !.stdin = @ \o SubSeq(cp.msg, 1, k), !.msg = << >>,
                              !.up = "ended"]
  /\ UNCHANGED <<regVars, lwVars, exVars, rpcVars, termVars, lockVars, fileVars, listVars, ttlVars>>

\* <-done; the deferred resp.Close() and conn.Close()
CopyWait ==
  /\ cp.pc = "wait" /\ cp.down = "ended"
  /\ cp' = [cp EXCEPT !.pc = "returned"]
  /\ UNCHANGED <<regVars, lwVars, exVars, rpcVars, termVars, lockVars, fileVars, listVars, ttlVars>>

NextCopy ==
  \/ CopyShellWrites
  \/ CopyShellExits
  \/ CopyClientSends
  \/ CopyClientCloses
  \/ CopyDownRead
  \/ CopyDownWrite
  \/ CopyUpRead
  \/ CopyUpWrite
  \/ CopyWait

SpecCopy == InitCopy /\ [][NextCopy]_vars

\* C31: the binary frames delivered to the client, put end to end, are the first
\* bytes read from the attach stream, each frame one chunk of 1..BufLen bytes, and
\* the bytes written to the stdin of the exec are the first bytes of the client's
\* payloads put end to end.
C31_FramesArePrefixes ==
  /\ Concat(cp.frames) = Chunk(0, Len(Concat(cp.frames)))
  /\ Len(Concat(cp.frames)) <= cp.rd /\ cp.rd <= cp.out
  /\ \A i \in 1..Len(cp.frames) : Len(cp.frames[i]) \in 1..BufLen
  /\ cp.stdin = Chunk(0, Len(cp.stdin))
  /\ Len(cp.stdin) <= cp.typed

\* two frames went down, the first a full buffer, and two payloads went up
C31_Witness ==
  /\ Len(cp.frames) = 2 /\ Len(cp.frames[1]) = BufLen /\ Len(Concat(cp.frames)) = MaxOut
  /\ Len(cp.stdin) = MaxTyped /\ cp.sends = MaxSends /\ cp.up = "reading" /\ cp.inbox = << >>
  /\ cp.pc = "wait"

(***************************************************************************)
(* DockerProvider.ListDir: the parse of the output of find | tail.         *)
(* Text is a sequence of characters; "TAB" and "NL" are the two separators.*)
(***************************************************************************)
\* what a field of a printed line may hold: a name or type letter, a size, a name
\* that begins with a blank
FieldValues == {<< "d" >>, << "7" >>, << " ", "d" >>}

Rows == UNION {[1..n -> FieldValues] : n \in 0..MaxFields}

Listings == UNION {[1..n -> Rows] : n \in 0..MaxLines}

RECURSIVE Join(_, _)
\* the parts with sep between them
Join(parts, sep) ==
  IF parts = << >> THEN << >>
  ELSE IF Len(parts) = 1 THEN parts[1]
  ELSE parts[1] \o << sep >> \o Join(Tail(parts), sep)

RECURSIVE PrintLines(_)
\* -printf '%f\t%s\t%Y\t%T@\n': every line ends with a newline
PrintLines(rows) ==
  IF rows = << >> THEN << >>
  ELSE Join(Head(rows), "TAB") \o << "NL" >> \o PrintLines(Tail(rows))

IsSpace(c) == c \in {" ", "TAB", "NL"}

RECURSIVE TrimLeft(_)
TrimLeft(t) == IF t # << >> /\ IsSpace(Head(t)) THEN TrimLeft(Tail(t)) ELSE t

RECURSIVE TrimRight(_)
TrimRight(t) ==
  IF t # << >> /\ IsSpace(t[Len(t)]) THEN TrimRight(SubSeq(t, 1, Len(t) - 1)) ELSE t

\* bytes.TrimSpace
TrimSpace(t) == TrimRight(TrimLeft(t))

RECURSIVE Split(_, _)
\* bytes.Split(t, sep): the text between the separators, at least one part
Split(t, sep) ==
  IF \A i \in 1..Len(t) : t[i] # sep THEN << t >>
  ELSE LET i == CHOOSE j \in 1..Len(t) : t[j] = sep /\ \A k \in 1..(j - 1) : t[k] # sep
       IN << SubSeq(t, 1, i - 1) >> \o Split(SubSeq(t, i + 1, Len(t)), sep)

Digits == [c \in {"7"} |-> 7]

RECURSIVE ScanDigits(_, _)
ScanDigits(t, acc) ==
  IF t # << >> /\ Head(t) \in DOMAIN Digits
  THEN ScanDigits(Tail(t), 10 * acc + Digits[Head(t)])
  ELSE acc

\* size := int64(0); fmt.Sscanf(text, "%d", &size): leading blanks are skipped, the
\* digits that follow are read, and size keeps 0 when there is none
Sscanf(t) == ScanDigits(TrimLeft(t), 0)

\* the path handed to ListDir
ListPath == << "/", "w" >>

FileInfo(path, parts) ==
  [Name |-> parts[1], Path |-> path \o << "/" >> \o parts[1],
   IsDir |-> (parts[3] = << "d" >>), Size |-> Sscanf(parts[2])]

RECURSIVE ParseLines(_, _)
\* the loop over lines: empty lines and lines of fewer than four parts are skipped
ParseLines(path, lines) ==
  IF lines = << >> THEN << >>
  ELSE LET parts == Split(Head(lines), "TAB")
           rest == ParseLines(path, Tail(lines))
       IN IF Head(lines) = << >> \/ Len(parts) < 4 THEN rest
          ELSE << FileInfo(path, parts) >> \o rest

\* lines := bytes.Split(bytes.TrimSpace(stdoutBuf.Bytes()), "\n") and the loop
ParseListing(path, out) == ParseLines(path, Split(TrimSpace(out), "NL"))

InitList ==
  /\ RegInit /\ LWIdle /\ ExIdle /\ RpcIdle /\ TermIdle /\ LockIdle /\ FileIdle
  /\ cp = [pc |-> "off"] /\ dur = [pc |-> "off"]
  /\ \E rows \in Listings :
       ld = [pc |-> "parse", rows |-> rows, out |-> PrintLines(rows), files |-> << >>]

ListDirParse ==
  /\ ld.pc = "parse"
  /\ ld' = [ld EXCEPT !.pc = "done", !.files = ParseListing(ListPath, ld.out)]
  /\ UNCHANGED <<regVars, lwVars, exVars, rpcVars, termVars, lockVars, fileVars, copyVars, ttlVars>>

SpecList == InitList /\ [][ListDirParse]_vars

RECURSIVE C32_Entries(_)
C32_Entries(rows) ==
  IF rows = << >> THEN << >>
  ELSE IF Len(Head(rows)) < 4 THEN C32_Entries(Tail(rows))
  ELSE << [Name |-> Head(rows)[1], Path |-> ListPath \o << "/" >> \o Head(rows)[1],
           IsDir |-> (Head(rows)[3] = << "d" >>), Size |-> Sscanf(Head(rows)[2])] >>
       \o C32_Entries(Tail(rows))

\* C32: ListDir returns, in the order of the output, one entry for every printed
\* line of at least four fields, with the first field as name, the second as size,
\* is_dir set exactly when the third is "d", and path/name as path.
C32_OneEntryPerLine ==
  ld.pc = "done" => ld.files = C32_Entries(ld.rows)

\* C33: a Create that has reached the ContainerCreate call has its image present
\* locally, found there or pulled to completion.
C33_CreateOnlyWithImage ==
  \A p \in Procs : req[p].pc = "c_create" => templates[req[p].template] \in images

\* C34: a Delete or a lookup (the map read that opens Exec, WriteFile, ReadFile,
\* ListDir and GetContainerID) of an id that is not in the registry returns "sandbox
\* not found" at once, having made no call to the runtime and leaving the registry,
\* the containers and every request in flight as they were.
C34_NotFoundTouchesNothing ==
  [][\A p \in Procs, id \in Ids :
       ((DeleteBegin(p, id) \/ GetContainerID(p, id)) /\ id \notin DOMAIN sandboxes)
          => /\ last'.result = "not_found" /\ last'.id = id /\ ~last'.rt
             /\ UNCHANGED <<sandboxes, containers, images, removeCalls, req>>]_vars

\* a Delete of an unknown id has returned while the registry holds a sandbox
C34_Witness ==
  /\ last.op = "delete" /\ last.result = "not_found" /\ ~last.rt
  /\ sandboxes # << >> /\ last.id \notin DOMAIN sandboxes

\* C35: a container whose record a Delete took out of the registry never has a
\* record again and ContainerRemove is called on it at most once, by that Delete;
\* when that call failed the Delete is answered DELETE_FAILED with retryable set, and
\* its id is not in the registry as long as the container is there.
C35_FailedRemovalNotRetried ==
  /\ \A cid \in unregistered :
       /\ \A id \in DOMAIN sandboxes : sandboxes[id].ContainerID # cid
       /\ removeCalls[cid] <= 1
       /\ (removeCalls[cid] = 1 /\ containers[cid].state # "removed")
             => containers[cid].name \notin DOMAIN sandboxes
  /\ (last.op = "delete" /\ last.result = "remove_failed")
       => /\ last.reply.kind = "error" /\ last.reply.type = "DELETE_FAILED"
          /\ last.reply.retryable
          /\ last.cid \in unregistered

\* the removal of a user's Delete failed, the reaper has since run a pass on another
\* sandbox, and the container is still there, called once
C35_Witness ==
  /\ last.op = "delete" /\ last.result = "remove_failed"
  /\ containers[last.cid].state = "running" /\ removeCalls[last.cid] = 1
  /\ gc.pc = "remove" /\ gc.cid # last.cid

\* C36: a record that a Delete issued by the reaper takes out of the registry has an
\* expires_at earlier than the instant of the snapshot of that pass.
C36_ReaperRemovesOnlyExpired ==
  [][GcDelete =>
       \A id \in DOMAIN sandboxes \ DOMAIN sandboxes' : sandboxes[id].ExpiresAt < gc.now]_vars

\* C37: no step changes a record that stays in the registry; a lookup and the
\* reaper's snapshot leave the registry as it is, Delete(id) takes out the entry of
\* id and no other, a Delete of the reaper takes out one entry of its snapshot at
\* most, and a Create that succeeds adds one entry under an id that had none.
C37_RegistryFrame ==
  [][/\ \A id \in DOMAIN sandboxes \cap DOMAIN sandboxes' : sandboxes'[id] = sandboxes[id]
     /\ (GcTick \/ \E p \in Procs, id \in Ids : GetContainerID(p, id))
           => sandboxes' = sandboxes
     /\ \A p \in Procs, id \in Ids :
           DeleteBegin(p, id) => DOMAIN sandboxes' = DOMAIN sandboxes \ {id}
     /\ GcDelete => \E id \in gc.toDelete : DOMAIN sandboxes' = DOMAIN sandboxes \ {id}
     /\ \A p \in Procs :
           CreateInsert(p) => /\ req[p].id \notin DOMAIN sandboxes
                              /\ DOMAIN sandboxes' = DOMAIN sandboxes \cup {req[p].id}]_vars

\* a second sandbox was registered beside the first, and a Delete of the first is
\* under way with the second still there
C37_Witness ==
  /\ Len(issued) = 2 /\ issued[1] # issued[2]
  /\ DOMAIN sandboxes = {issued[2]}
  /\ \E p \in Procs : req[p].pc = "d_remove" /\ req[p].id = issued[1]

\* C38: a lookup of an id that is in the registry finds it, expired or not, and the
\* container of a registered sandbox runs; a record leaves the registry only in a
\* Delete of a user or of the reaper, and the reaper starts a pass only when the
\* one before is over.
C38_ExpiredStaysUsable ==
  /\ [](\A id \in DOMAIN sandboxes : containers[sandboxes[id].ContainerID].state = "running")
  /\ [][/\ \A p \in Procs, id \in DOMAIN sandboxes :
              GetContainerID(p, id) => (last'.result = "found"
                                        /\ last'.cid = sandboxes[id].ContainerID)
        /\ DOMAIN sandboxes \ DOMAIN sandboxes' # {}
              => (GcDelete \/ \E p \in Procs, id \in Ids : DeleteBegin(p, id))
        /\ GcTick => (gc.pc = "wait" /\ gc.toDelete = {})]_vars

\* a sandbox past its expires_at was looked up and found, its container running
C38_Witness ==
  /\ last.op = "lookup" /\ last.result = "found"
  /\ last.id \in DOMAIN sandboxes /\ sandboxes[last.id].ExpiresAt < now
  /\ containers[last.cid].state = "running"
  /\ gc.pc = "wait"

\* ---------------------------------------------------------------------------
\* The ttl of sandbox.v1.create (rpc.go:124-127, main.go:180-181).
\* An integer of the program is the sequence of its two's-complement bytes,
\* lowest byte first, so that every width is the program's own.

\* Go's int is 32 bits wide on a 32-bit build and 64 bits on the others
IntSizes == {4, 8}

RECURSIVE ToBytes(_, _)
ToBytes(n, w) == IF w = 0 THEN << >> ELSE << n % 256 >> \o ToBytes(n \div 256, w - 1)

IsNeg(x) == x[Len(x)] >= 128

Positive(x) == ~IsNeg(x) /\ \E i \in 1..Len(x) : x[i] # 0

\* conversion to a type of w bytes: sign extension, or truncation
Extend(x, w) == [i \in 1..w |-> IF i <= Len(x) THEN x[i] ELSE IF IsNeg(x) THEN 255 ELSE 0]

RECURSIVE Column(_, _, _, _)
Column(a, b, k, i) == IF i > k THEN 0 ELSE a[i] * b[k + 1 - i] + Column(a, b, k, i + 1)

RECURSIVE MulFrom(_, _, _, _)
MulFrom(a, b, k, carry) ==
  IF k > Len(a) THEN << >>
  ELSE LET t == Column(a, b, k, 1) + carry
       IN  << t % 256 >> \o MulFrom(a, b, k + 1, t \div 256)

\* a * b of two integers of one width: the low bytes of the product
Mul(a, b) == MulFrom(a, b, 1, 0)

RECURSIVE AddFrom(_, _, _, _)
AddFrom(a, b, k, carry) ==
  IF k > Len(a) THEN << >>
  ELSE LET t == a[k] + b[k] + carry
       IN  << t % 256 >> \o AddFrom(a, b, k + 1, t \div 256)

RECURSIVE ULess(_, _, _)
ULess(a, b, i) ==
  IF i = 0 THEN FALSE ELSE IF a[i] # b[i] THEN a[i] < b[i] ELSE ULess(a, b, i - 1)

\* a < b of two signed integers of one width
Less(a, b) == IF IsNeg(a) # IsNeg(b) THEN IsNeg(a) ELSE ULess(a, b, Len(a))

\* time.Duration(x): an int64 count of nanoseconds
Duration(x) == Extend(x, 8)

Millisecond == ToBytes(1000000, 8)

Minute == Mul(ToBytes(60000, 8), Millisecond)

\* an instant, in nanoseconds: time.Time holds seconds in an int64 of its own, so
\* that no instant of the program leaves twelve bytes of nanoseconds
Instant(x) == Extend(x, 12)

\* now.Add(ttl)
TimeAdd(t, d) == AddFrom(t, Instant(d), 1, 0)

\* ttl := time.Duration(p.TTLMS) * time.Millisecond; if p.TTLMS <= 0 { ttl = 10 * time.Minute }
CreateTTL(ttl_ms) ==
  IF ~Positive(ttl_ms) THEN Mul(ToBytes(10, 8), Minute)
  ELSE Mul(Duration(ttl_ms), Millisecond)

InputBytes == {0, 1, 140, 255}

\* 9223372036854 ms, the last whose nanoseconds fit an int64, and the next one
LastExactMS == << 246, 90, 208, 123, 99, 8, 0, 0 >>

FirstWrappedMS == << 247, 90, 208, 123, 99, 8, 0, 0 >>

\* the values json.Unmarshal stores in an int of w bytes
TTLMSInputs(w) ==
  [1..w -> InputBytes] \cup (IF w = 8 THEN {LastExactMS, FirstWrappedMS} ELSE {})

\* readings of time.Now(): the zero of the clock and an instant 1.8e18 ns after the epoch
Clocks == {Instant(ToBytes(0, 8)), Instant(Mul(ToBytes(1800000000, 8), ToBytes(1000000000, 8)))}

InitTTL ==
  /\ RegInit /\ LWIdle /\ ExIdle /\ RpcIdle /\ TermIdle /\ LockIdle /\ FileIdle
  /\ cp = [pc |-> "off"] /\ ld = [pc |-> "off"]
  /\ \E w \in IntSizes : \E x \in TTLMSInputs(w) : \E c \in Clocks :
       dur = [pc |-> "params", ttl_ms |-> x, clock |-> c, ttl |-> << >>,
              CreatedAt |-> << >>, ExpiresAt |-> << >>]

\* case "sandbox.v1.create": the ttl handed to Create
RpcCreateTTL ==
  /\ dur.pc = "params"
  /\ dur' = [dur EXCEPT !.pc = "create", !.ttl = CreateTTL(dur.ttl_ms)]
  /\ UNCHANGED <<regVars, lwVars, exVars, rpcVars, termVars, lockVars, fileVars, copyVars, listVars>>

\* Create got its container started: now := time.Now(); expiresAt := now.Add(ttl)
ProviderCreateTTL ==
  /\ dur.pc = "create"
  /\ dur' = [dur EXCEPT !.pc = "done", !.CreatedAt = dur.clock,
                        !.ExpiresAt = TimeAdd(dur.clock, dur.ttl)]
  /\ UNCHANGED <<regVars, lwVars, exVars, rpcVars, termVars, lockVars, fileVars, copyVars, listVars>>

\* Create returned an error before it read the clock
ProviderCreateFails ==
  /\ dur.pc = "create"
  /\ dur' = [dur EXCEPT !.pc = "failed"]
  /\ UNCHANGED <<regVars, lwVars, exVars, rpcVars, termVars, lockVars, fileVars, copyVars, listVars>>

NextTTL == RpcCreateTTL \/ ProviderCreateTTL \/ ProviderCreateFails

SpecTTL == InitTTL /\ [][NextTTL]_vars

\* C39: for every ttl_ms > 0 the ttl handed to Create is positive and is ttl_ms
\* times a million without loss, and the expires_at of the sandbox created with
\* it is later than its creation instant.
C39_TTLNeverWraps ==
  (dur.pc \in {"create", "done"} /\ Positive(dur.ttl_ms)) =>
     /\ Positive(dur.ttl)
     /\ Extend(dur.ttl, 16) = Mul(Extend(Duration(dur.ttl_ms), 16), Extend(Millisecond, 16))
     /\ dur.pc = "done" => Less(dur.CreatedAt, dur.ExpiresAt)

====
